---- MODULE Spec2Model ----
(***************************************************************************)
(* Model of the preset system and the enhancement service of the Yappr     *)
(* extension: PresetManager, TemplateEngine and EnhancementService of      *)
(* src/popup.js, the preset pages of src/settings.js, and the browser      *)
(* key-value store they share.                                              *)
(*                                                                         *)
(* JavaScript values.  Text is a TLA+ string.  A value that may be null or *)
(* undefined is a record [absent, text].  A preset id that may be null is  *)
(* a string, with Null standing for null.                                  *)
(*                                                                         *)
(* Suspension points.  Every await on the store or on the network ends an  *)
(* action; the code between two awaits is one action.                      *)
(***************************************************************************)
EXTENDS Integers, Sequences, FiniteSets, TLC

VARIABLES
    syncPresets,        \* chrome.storage.sync 'presets': id -> preset
    syncSelected,       \* chrome.storage.sync 'selectedPresetId'
    localPresets,       \* chrome.storage.local 'presets' (fallback area)
    localSelected,      \* chrome.storage.local 'selectedPresetId'
    gptApiKey,          \* chrome.storage 'gptApiKey'
    legacy,             \* chrome.storage.sync legacy per-site keys
    presets,            \* PresetManager.presets (the in-memory Map)
    selectedPresetId,   \* PresetManager.selectedPresetId
    initialized,        \* PresetManager.initialized
    init,               \* the runs of PresetManager.init, by caller
    deleting,           \* the preset a suspended PresetManager.deletePreset removed
    isProcessing,       \* EnhancementService.isProcessing
    calls,              \* enhanceTranscript invocations, by slot
    returned,           \* what the enhanceTranscript call that ended in the last step
                        \* gave its caller (NoReturn when none ended)
    page,               \* YapprSettings: editor state and the operation in flight
    clock,              \* Date.now(), as a logical counter
    last,               \* how the preset operation that ended in the last step ended
                        \* (NoLast when none ended)
    applied,            \* a text function under test: its arguments and, once
                        \* applied, its result
    recorder,           \* AudioRecorder: its fields, the handleToggleRecording calls
                        \* in flight, and the streams and MediaRecorders of the page
    history,            \* chrome.storage.local 'history' and the addTranscription
                        \* calls in flight
    tracker             \* YapprUsageTracker: its fields, the stores in flight and
                        \* chrome.storage.local 'yapprUsageAnalytics'

vars == <<syncPresets, syncSelected, localPresets, localSelected, gptApiKey, legacy,
          presets, selectedPresetId, initialized, init, deleting, isProcessing, calls,
          returned, page, clock, last, applied, recorder, history, tracker>>

storeVars == <<syncPresets, syncSelected, localPresets, localSelected, gptApiKey, legacy>>
managerVars == <<presets, selectedPresetId, initialized, init, deleting>>
serviceVars == <<isProcessing, calls, returned>>
captureVars == <<recorder, history, tracker>>

----------------------------------------------------------------------------
(* Bounds *)

MaxCalls == 2          \* slots for enhanceTranscript invocations that overlap
MaxUsage == 1          \* cap on the usage counted by one manager
MaxStreams == 2        \* streams getUserMedia hands out
MaxChunks == 2         \* chunks a recorder collects
MaxEvents == 2         \* events trackEvent accepts
MaxClock == 2          \* the logical time at which the user stops starting preset operations

(* Program constants *)

MaxTranscriptLength == 4000
MaxCustomPresets == 2
MaxPromptLength == 2000
MAX_HISTORY_ITEMS == 500

Null == "null"

----------------------------------------------------------------------------
(* Strings *)

Absent == [absent |-> TRUE, text |-> ""]
Str(s) == [absent |-> FALSE, text |-> s]

CharAt(s, i) == SubSeq(s, i, i)

RECURSIVE Repeat(_, _)
Repeat(ch, n) ==
    IF n = 0 THEN ""
    ELSE IF n % 2 = 0 THEN LET h == Repeat(ch, n \div 2) IN h \o h
    ELSE Repeat(ch, n - 1) \o ch

IsSpace(ch) == ch \in {" ", "\t", "\n", "\r"}

RECURSIVE TrimStart(_)
TrimStart(s) ==
    IF Len(s) > 0 /\ IsSpace(CharAt(s, 1)) THEN TrimStart(SubSeq(s, 2, Len(s))) ELSE s

RECURSIVE TrimEnd(_)
TrimEnd(s) ==
    IF Len(s) > 0 /\ IsSpace(CharAt(s, Len(s))) THEN TrimEnd(SubSeq(s, 1, Len(s) - 1)) ELSE s

Trim(s) == TrimEnd(TrimStart(s))

UpperCase == "ABCDEFGHIJKLMNOPQRSTUVWXYZ"
LowerCase == "abcdefghijklmnopqrstuvwxyz"

LowerChar(ch) ==
    IF \E i \in 1..Len(UpperCase) : CharAt(UpperCase, i) = ch
    THEN CharAt(LowerCase, CHOOSE i \in 1..Len(UpperCase) : CharAt(UpperCase, i) = ch)
    ELSE ch

RECURSIVE ToLowerCase(_)
ToLowerCase(s) ==
    IF Len(s) = 0 THEN "" ELSE LowerChar(CharAt(s, 1)) \o ToLowerCase(SubSeq(s, 2, Len(s)))

----------------------------------------------------------------------------
(* TemplateEngine *)

Min(S) == CHOOSE x \in S : \A y \in S : x <= y

\* Position of the first occurrence of pat in s at or after from; 0 when none.
IndexOf(s, pat, from) ==
    LET hits == {i \in from..(Len(s) - Len(pat) + 1) : SubSeq(s, i, i + Len(pat) - 1) = pat}
    IN  IF hits = {} THEN 0 ELSE Min(hits)

\* variablePattern = /\{([^}]+)\}/g, applied with exec from position i on.
RECURSIVE MatchVariables(_, _)
MatchVariables(template, i) ==
    LET open == IndexOf(template, "{", i)
        close == IF open = 0 THEN 0 ELSE IndexOf(template, "}", open + 1)
    IN  IF open = 0 \/ close = 0 THEN <<>>
        ELSE IF close = open + 1 THEN MatchVariables(template, open + 1)
        ELSE <<SubSeq(template, open + 1, close - 1)>> \o MatchVariables(template, close + 1)

RECURSIVE Dedupe(_)
Dedupe(seq) ==
    IF Len(seq) = 0 THEN <<>>
    ELSE LET front == Dedupe(SubSeq(seq, 1, Len(seq) - 1))
             x == seq[Len(seq)]
         IN  IF \E k \in 1..Len(front) : front[k] = x THEN front ELSE Append(front, x)

extractTemplateVariables(template) == Dedupe(MatchVariables(template, 1))

\* variables is the sequence of <<key, value>> entries of the object.
Lookup(variables, name) ==
    IF \E k \in 1..Len(variables) : variables[k][1] = name
    THEN variables[CHOOSE k \in 1..Len(variables) : variables[k][1] = name][2]
    ELSE Absent

findMissingVariablesNullOnly(templateVars, providedVars) ==
    SelectSeq(templateVars, LAMBDA varName : Lookup(providedVars, varName).absent)

findMissingVariables(templateVars, providedVars) ==
    SelectSeq(templateVars,
              LAMBDA varName : LET value == Lookup(providedVars, varName)
                               IN  value.absent \/ value.text = "")

\* String.prototype.replace expands $$, $&, $` and $' in the replacement text.
RECURSIVE ExpandReplacement(_, _, _, _)
ExpandReplacement(value, matched, before, after) ==
    LET d == IndexOf(value, "$", 1)
        nx == IF d = 0 \/ d = Len(value) THEN "" ELSE CharAt(value, d + 1)
        rest == SubSeq(value, d + 2, Len(value))
        head == SubSeq(value, 1, d - 1)
    IN  IF d = 0 THEN value
        ELSE IF nx = "$" THEN head \o "$" \o ExpandReplacement(rest, matched, before, after)
        ELSE IF nx = "&" THEN head \o matched \o ExpandReplacement(rest, matched, before, after)
        ELSE IF nx = "`" THEN head \o before \o ExpandReplacement(rest, matched, before, after)
        ELSE IF nx = "'" THEN head \o after \o ExpandReplacement(rest, matched, before, after)
        ELSE head \o "$" \o ExpandReplacement(SubSeq(value, d + 1, Len(value)),
                                               matched, before, after)

\* result.replace(new RegExp(escaped placeholder, 'g'), value), scanning from i.
RECURSIVE ReplaceAll(_, _, _, _)
ReplaceAll(s, placeholder, value, i) ==
    LET at == IndexOf(s, placeholder, i)
        stop == at + Len(placeholder)
    IN  IF at = 0 THEN SubSeq(s, i, Len(s))
        ELSE SubSeq(s, i, at - 1)
             \o ExpandReplacement(value, placeholder, SubSeq(s, 1, at - 1),
                                  SubSeq(s, stop, Len(s)))
             \o ReplaceAll(s, placeholder, value, stop)

RECURSIVE Substitute(_, _, _)
Substitute(result, variables, k) ==
    IF k > Len(variables) THEN result
    ELSE Substitute(ReplaceAll(result, "{" \o variables[k][1] \o "}", variables[k][2].text, 1),
                    variables, k + 1)

render(template, variables) ==
    IF template = "" THEN [success |-> FALSE, result |-> "", missingVars |-> <<>>]
    ELSE LET missingVars == findMissingVariables(extractTemplateVariables(template), variables)
         IN  IF Len(missingVars) > 0
             THEN [success |-> FALSE, result |-> "", missingVars |-> missingVars]
             ELSE [success |-> TRUE, result |-> Substitute(template, variables, 1),
                   missingVars |-> <<>>]

----------------------------------------------------------------------------
(* Presets.  createdAt is never read by the code and is left out; the three *)
(* default prompts are shortened to their last line, which holds the        *)
(* placeholder.                                                             *)

EmptyMap == [id \in {} |-> id]

Put(map, id, value) == [k \in DOMAIN map \cup {id} |-> IF k = id THEN value ELSE map[k]]
Remove(map, id) == [k \in DOMAIN map \ {id} |-> map[k]]
Has(map, id) == id \in DOMAIN map

SystemIds == {"default-email", "default-professional", "default-basic"}

Preset(id, name, prompt, isSystem, enabled) ==
    [id |-> id, name |-> name, prompt |-> prompt, isSystem |-> isSystem,
     enabled |-> enabled, usageCount |-> 0, lastUsed |-> 0]

getDefaultPresetsDefinition ==
    <<Preset("default-email", "Email", "Original transcript: {transcript}", TRUE, TRUE),
      Preset("default-professional", "Professional", "Original transcript: {transcript}",
             TRUE, TRUE),
      Preset("default-basic", "Basic", "Text to clean: {transcript}", TRUE, TRUE)>>

RECURSIVE SumUsage(_, _)
SumUsage(map, ids) ==
    IF ids = {} THEN 0
    ELSE LET id == CHOOSE x \in ids : TRUE
         IN  map[id].usageCount + SumUsage(map, ids \ {id})

TotalUsage(map) == SumUsage(map, DOMAIN map)

NonSystem(map) == {id \in DOMAIN map : ~map[id].isSystem}

\* How a write through saveStorage ends: on chrome.storage.sync, on
\* chrome.storage.local after sync failed, or not at all (both failed).
WriteModes == {"sync", "local", "fail"}

Sites == {"twitter", "linkedin", "gmail"}

\* The legacy keys of one site: <site>CustomPrompt ('' when not stored) and
\* <site>PresetEnabled ("unset" when not stored).
NoLegacy == [site \in Sites |-> [prompt |-> "", enabled |-> "unset"]]

InitIds == {"constructor", "getSelectedPreset"}

NoSnapshot == [ok |-> FALSE, presets |-> EmptyMap, selected |-> Null]

InitIdle == [pc |-> "idle", snap |-> NoSnapshot, oldData |-> NoLegacy]
InitDone == [pc |-> "done", snap |-> NoSnapshot, oldData |-> NoLegacy]

NoForm == [name |-> "", prompt |-> "", enabled |-> FALSE]

\* The settings page before it is opened; currentEditingPreset is not set by
\* the constructor.
PageIdle == [open |-> FALSE, editing |-> "undefined", modal |-> FALSE, op |-> "idle",
             target |-> Null, snap |-> EmptyMap, form |-> NoForm]

NoLast == [op |-> "none", id |-> Null, ok |-> TRUE, error |-> ""]

\* No text function is under test.
NoApplied == [fn |-> "none", args |-> <<>>, done |-> FALSE, out |-> Null]

----------------------------------------------------------------------------
(* PresetManager: reads *)

\* getSelectedPreset once initialization has run: the preset, or Null.
GetSelected(map, sel) ==
    IF sel = Null \/ sel = "" THEN Null
    ELSE IF ~Has(map, sel) THEN Null
    ELSE IF ~map[sel].enabled THEN Null
    ELSE sel

----------------------------------------------------------------------------
(* EnhancementService *)

CallIds == 1..MaxCalls

NoSnap == [id |-> Null, name |-> "", prompt |-> ""]
Snap(p) == [id |-> p.id, name |-> p.name, prompt |-> p.prompt]

Idle == [pc |-> "idle", arg |-> Absent, raw |-> Absent, presetId |-> Null,
         preset |-> NoSnap, status |-> 0, enhanced |-> "", collab |-> 0]

NoResult == [success |-> FALSE, isOriginal |-> FALSE, result |-> Absent,
             originalText |-> Absent, fallbackReason |-> "", presetId |-> Null]

NoReturn == [ended |-> FALSE, arg |-> Absent, presetId |-> Null, busy |-> FALSE,
             collab |-> 0, threw |-> FALSE, value |-> NoResult]

\* createFallbackResult reads originalText.length, which throws a TypeError on
\* null or undefined.
createFallbackResult(originalText, reason) ==
    [threw |-> originalText.absent,
     value |-> IF originalText.absent THEN NoResult
               ELSE [success |-> FALSE, isOriginal |-> TRUE, result |-> originalText,
                     originalText |-> originalText, fallbackReason |-> reason,
                     presetId |-> Null]]

\* A fallback created inside the try block: a throw of createFallbackResult is
\* caught, and the catch block calls createFallbackResult again with the
\* same text.
FallbackInTry(originalText, reason) ==
    LET first == createFallbackResult(originalText, reason)
    IN  IF first.threw
        THEN createFallbackResult(originalText, "Cannot read properties of null")
        ELSE first

IsBlank(t) == t.absent \/ t.text = "" \/ Len(Trim(t.text)) = 0

Truncate(t) ==
    IF Len(t.text) > MaxTranscriptLength
    THEN Str(SubSeq(t.text, 1, MaxTranscriptLength) \o "...")
    ELSE t

\* The call ends and no finally block runs.
FinishWithoutFinally(c, r, out) ==
    /\ returned' = [ended |-> TRUE, arg |-> r.arg, presetId |-> r.presetId, busy |-> FALSE,
                    collab |-> r.collab, threw |-> out.threw, value |-> out.value]
    /\ calls' = [calls EXCEPT ![c] = Idle]
    /\ isProcessing' = isProcessing

\* The enhanceTranscript call r of slot c ends with outcome out; the finally
\* block clears the flag.
Finish(c, r, out) ==
    /\ returned' = [ended |-> TRUE, arg |-> r.arg, presetId |-> r.presetId, busy |-> FALSE,
                    collab |-> r.collab, threw |-> out.threw, value |-> out.value]
    /\ calls' = [calls EXCEPT ![c] = Idle]
    /\ isProcessing' = FALSE

\* The call r of slot c suspends at an await on a collaborator.
Suspend(c, r, pc) ==
    /\ calls' = [calls EXCEPT ![c] = [r EXCEPT !.pc = pc, !.collab = @ + 1]]
    /\ isProcessing' = TRUE
    /\ returned' = NoReturn

\* saveStorage({ presets }) as called by savePresets, which swallows a failure.
WritePresets(map, mode) ==
    /\ syncPresets' = IF mode = "sync" THEN map ELSE syncPresets
    /\ localPresets' = IF mode = "local" THEN map ELSE localPresets

\* saveStorage({ selectedPresetId })
WriteSelected(sel, mode) ==
    /\ syncSelected' = IF mode = "sync" THEN sel ELSE syncSelected
    /\ localSelected' = IF mode = "local" THEN sel ELSE localSelected

BusyCheckSkipped == FALSE

\* The busy check at the head of enhanceTranscript.
BusyCheck == isProcessing

\* Steps 1 and 2 of enhanceTranscript, with the preset lookup done: key is the
\* id of the preset found, or Null.
AfterPreset(c, r, key) ==
    IF key = Null
    THEN Finish(c, r, FallbackInTry(r.raw, "no preset selected"))
    ELSE IF IsBlank(r.raw)
    THEN Finish(c, r, FallbackInTry(r.raw, "empty transcript"))
    ELSE Suspend(c, [r EXCEPT !.raw = Truncate(r.raw), !.preset = Snap(presets[key])],
                 "awaitKey")

\* A new invocation takes the lowest free slot.  The busy path returns before
\* presetId is read.
enhanceTranscript(c, rawTranscript, presetId) ==
    /\ calls[c].pc = "idle"
    /\ \A k \in CallIds : calls[k].pc = "idle" => c <= k
    /\ IF BusyCheck
       THEN LET out == createFallbackResult(rawTranscript, "already processing")
            IN  /\ returned' = [ended |-> TRUE, arg |-> rawTranscript, presetId |-> Null,
                                busy |-> TRUE, collab |-> 0, threw |-> out.threw,
                                value |-> out.value]
                /\ UNCHANGED <<calls, isProcessing>>
       ELSE LET r == [Idle EXCEPT !.arg = rawTranscript, !.raw = rawTranscript,
                                  !.presetId = presetId]
            IN  IF presetId # Null /\ presetId # ""
                THEN AfterPreset(c, r, IF Has(presets, presetId) THEN presetId ELSE Null)
                ELSE Suspend(c, r, "awaitPreset")
    /\ UNCHANGED <<storeVars, managerVars, page, clock, last>>
    /\ UNCHANGED <<applied, captureVars>>

\* await this.presetManager.getSelectedPreset() resolves.  An uninitialized
\* manager first awaits init(), which leaves initialized set.
PresetResolves(c) ==
    /\ calls[c].pc = "awaitPreset"
    /\ initialized
    /\ AfterPreset(c, calls[c], GetSelected(presets, selectedPresetId))
    /\ UNCHANGED <<storeVars, managerVars, page, clock, last>>
    /\ UNCHANGED <<applied, captureVars>>

\* await this.getOpenAIKey() resolves; a failed read yields ''.  Steps 3 and 4.
KeyResolves(c, readOk) ==
    /\ calls[c].pc = "awaitKey"
    /\ LET r == calls[c]
           apiKey == IF readOk THEN gptApiKey ELSE ""
           templateResult == render(r.preset.prompt,
                                    <<<<"transcript", r.raw>>, <<"raw_transcript", r.raw>>>>)
       IN  IF apiKey = ""
           THEN Finish(c, r, FallbackInTry(r.raw, "no API key"))
           ELSE IF ~templateResult.success
           THEN Finish(c, r, FallbackInTry(r.raw, "template error"))
           ELSE Suspend(c, r, "awaitFetch")
    /\ UNCHANGED <<storeVars, managerVars, page, clock, last>>
    /\ UNCHANGED <<applied, captureVars>>

Statuses == {200, 401, 429, 402, 503, 404}

StatusMessage(status) ==
    CASE status = 401 -> "Invalid API key"
      [] status = 429 -> "Rate limit exceeded"
      [] status = 402 -> "Insufficient credits"
      [] status \in {500, 502, 503} -> "OpenAI service unavailable"
      [] OTHER -> "API error"

FetchOutcomes ==
    {[kind |-> "abort", status |-> 0], [kind |-> "network", status |-> 0]}
    \cup {[kind |-> "response", status |-> status] : status \in Statuses}

\* callOpenAI: fetch settles.  "abort" is the timer's controller.abort(), which
\* callOpenAI turns into 'Request timeout'; "network" is a rejected fetch.
FetchSettles(c, outcome) ==
    /\ calls[c].pc = "awaitFetch"
    /\ LET r == calls[c]
       IN  IF outcome.kind = "abort"
           THEN Finish(c, r, createFallbackResult(r.raw, "Request timeout"))
           ELSE IF outcome.kind = "network"
           THEN Finish(c, r, createFallbackResult(r.raw, "Failed to fetch"))
           ELSE IF outcome.status \in 200..299
           THEN Suspend(c, r, "awaitJson")
           ELSE Suspend(c, [r EXCEPT !.status = outcome.status], "awaitText")
    /\ UNCHANGED <<storeVars, managerVars, page, clock, last>>
    /\ UNCHANGED <<applied, captureVars>>

\* callOpenAI: await response.text() of a response that is not ok settles.
ErrorTextSettles(c, readOk) ==
    /\ calls[c].pc = "awaitText"
    /\ LET r == calls[c]
       IN  Finish(c, r, createFallbackResult(r.raw,
                          IF readOk THEN StatusMessage(r.status) ELSE "Failed to fetch"))
    /\ UNCHANGED <<storeVars, managerVars, page, clock, last>>
    /\ UNCHANGED <<applied, captureVars>>

\* The bodies response.json() can deliver: not JSON, no choices, a choice
\* without message, blank content, content.
Bodies == {[kind |-> "invalid", content |-> ""], [kind |-> "noChoices", content |-> ""],
           [kind |-> "noMessage", content |-> ""], [kind |-> "content", content |-> "  "],
           [kind |-> "content", content |-> " Enhanced text. "]}

\* The rest of callOpenAI: the completion text, or the error thrown.
Completion(body) ==
    CASE body.kind = "invalid" -> [threw |-> TRUE, text |-> "Unexpected token"]
      [] body.kind = "noChoices" -> [threw |-> TRUE, text |-> "No response from OpenAI"]
      [] body.kind = "noMessage" -> [threw |-> TRUE, text |-> "Cannot read properties of undefined"]
      [] OTHER -> IF Trim(body.content) = ""
                  THEN [threw |-> TRUE, text |-> "Empty response from OpenAI"]
                  ELSE [threw |-> FALSE, text |-> Trim(body.content)]

\* updateUsageStats up to its await: the preset object is changed in place.
UsageUpdated(map, presetId, now) ==
    IF Has(map, presetId)
    THEN [map EXCEPT ![presetId].lastUsed = now, ![presetId].usageCount = @ + 1]
    ELSE map

\* callOpenAI: await response.json() settles; step 6 up to the await inside
\* updateUsageStats -> savePresets -> saveStorage.
JsonSettles(c, body, mode) ==
    /\ calls[c].pc = "awaitJson"
    /\ LET r == calls[c]
           got == Completion(body)
       IN  IF got.threw
           THEN /\ Finish(c, r, createFallbackResult(r.raw, got.text))
                /\ UNCHANGED <<storeVars, managerVars>>
           ELSE /\ TotalUsage(presets) < MaxUsage
                /\ presets' = UsageUpdated(presets, r.preset.id, clock)
                /\ IF Has(presets, r.preset.id)
                   THEN WritePresets(presets', mode)
                   ELSE UNCHANGED <<syncPresets, localPresets>>
                /\ Suspend(c, [r EXCEPT !.enhanced = got.text], "awaitUsage")
                /\ UNCHANGED <<syncSelected, localSelected, gptApiKey, legacy,
                               selectedPresetId, initialized, init, deleting>>
    /\ UNCHANGED <<page, clock, last>>
    /\ UNCHANGED <<applied, captureVars>>

\* await this.presetManager.updateUsageStats(preset.id) resolves: success.
UsageResolves(c) ==
    /\ calls[c].pc = "awaitUsage"
    /\ LET r == calls[c]
       IN  Finish(c, r, [threw |-> FALSE,
                         value |-> [success |-> TRUE, isOriginal |-> FALSE,
                                    result |-> Str(r.enhanced), originalText |-> r.raw,
                                    fallbackReason |-> "", presetId |-> r.preset.id]])
    /\ UNCHANGED <<storeVars, managerVars, page, clock, last>>
    /\ UNCHANGED <<applied, captureVars>>

----------------------------------------------------------------------------
(* PresetManager: initialization *)

\* A read through getStorage: chrome.storage.sync, chrome.storage.local when
\* sync throws, or a throw of both.
ReadModes == {"sync", "local", "fail"}

\* init -> loadPresets -> getStorage: the store answers the read.
StorageRead(i, mode) ==
    /\ init[i].pc = "reading"
    /\ init' = [init EXCEPT ![i].pc = "loading",
                            ![i].snap =
                                CASE mode = "sync" -> [ok |-> TRUE, presets |-> syncPresets,
                                                       selected |-> syncSelected]
                                  [] mode = "local" -> [ok |-> TRUE, presets |-> localPresets,
                                                        selected |-> localSelected]
                                  [] OTHER -> NoSnapshot]
    /\ UNCHANGED <<storeVars, presets, selectedPresetId, initialized, deleting, serviceVars,
                   page, clock>>
    /\ last' = NoLast
    /\ UNCHANGED <<applied, captureVars>>

RECURSIVE AddMissing(_, _, _)
AddMissing(map, defaults, k) ==
    IF k > Len(defaults) THEN map
    ELSE AddMissing(IF Has(map, defaults[k].id) THEN map
                    ELSE Put(map, defaults[k].id, defaults[k]),
                    defaults, k + 1)

\* The map ensureDefaultPresets leaves in memory.
ensureDefaultPresets(map) == AddMissing(map, getDefaultPresetsDefinition, 1)

\* The rest of loadPresets, then ensureDefaultPresets up to its save; the
\* read of the legacy keys is issued once that save has settled.
LoadPresets(i, mode) ==
    /\ init[i].pc = "loading"
    /\ LET loaded == IF init[i].snap.ok THEN init[i].snap.presets ELSE presets
       IN  /\ presets' = ensureDefaultPresets(loaded)
           /\ selectedPresetId' = IF init[i].snap.ok THEN init[i].snap.selected
                                  ELSE selectedPresetId
           /\ IF presets' # loaded
              THEN WritePresets(presets', mode)
              ELSE mode = "sync" /\ UNCHANGED <<syncPresets, localPresets>>
    /\ init' = [init EXCEPT ![i].pc = "readingLegacy", ![i].snap = NoSnapshot]
    /\ UNCHANGED <<syncSelected, localSelected, gptApiKey, legacy, initialized, deleting,
                   serviceVars, page, clock>>
    /\ last' = NoLast
    /\ UNCHANGED <<applied, captureVars>>

\* migrateFromUrlSystem: the store answers the read of the legacy keys; a
\* throw is caught and ends the migration.
LegacyRead(i, readOk) ==
    /\ init[i].pc = "readingLegacy"
    /\ IF readOk
       THEN /\ init' = [init EXCEPT ![i].pc = "migrating", ![i].oldData = legacy]
            /\ UNCHANGED initialized
       ELSE /\ init' = [init EXCEPT ![i] = InitDone]
            /\ initialized' = TRUE
    /\ UNCHANGED <<storeVars, presets, selectedPresetId, deleting, serviceVars, page, clock>>
    /\ last' = NoLast
    /\ UNCHANGED <<applied, captureVars>>

MigratedId(site) ==
    CASE site = "twitter" -> "migrated-twitter-x"
      [] site = "linkedin" -> "migrated-linkedin"
      [] OTHER -> "migrated-gmail"

MigratedName(site) ==
    CASE site = "twitter" -> "Twitter/X (Migrated)"
      [] site = "linkedin" -> "LinkedIn (Migrated)"
      [] OTHER -> "Gmail (Migrated)"

MigratedPreset(site, old) ==
    Preset(MigratedId(site), MigratedName(site), old.prompt, FALSE, old.enabled # "false")

RECURSIVE AddMigrated(_, _, _)
AddMigrated(map, oldData, sites) ==
    IF Len(sites) = 0 THEN map
    ELSE LET site == Head(sites)
         IN  AddMigrated(IF oldData[site].prompt # ""
                         THEN Put(map, MigratedId(site), MigratedPreset(site, oldData[site]))
                         ELSE map,
                         oldData, Tail(sites))

\* The map migrateFromUrlSystem leaves in memory.
Migrated(map, oldData) == AddMigrated(map, oldData, <<"twitter", "linkedin", "gmail">>)

migrationCountNoCheck(oldData) == Cardinality({site \in Sites : oldData[site].prompt # ""}) + 1

migrationCount(oldData) == Cardinality({site \in Sites : oldData[site].prompt # ""})

\* migrateFromUrlSystem from the answer of the read up to the save.
Migrate(i, mode) ==
    /\ init[i].pc = "migrating"
    /\ presets' = Migrated(presets, init[i].oldData)
    /\ IF migrationCount(init[i].oldData) > 0
       THEN /\ WritePresets(presets', mode)
            /\ init' = [init EXCEPT ![i].pc = "removing"]
            /\ UNCHANGED initialized
       ELSE /\ mode = "sync"
            /\ UNCHANGED <<syncPresets, localPresets>>
            /\ init' = [init EXCEPT ![i] = InitDone]
            /\ initialized' = TRUE
    /\ UNCHANGED <<syncSelected, localSelected, gptApiKey, legacy, selectedPresetId, deleting,
                   serviceVars, page, clock>>
    /\ last' = [op |-> "migrate", id |-> Null, ok |-> TRUE, error |-> ""]
    /\ UNCHANGED <<applied, captureVars>>

\* chrome.storage.sync.remove of the legacy keys; a throw is caught.
RemoveLegacy(i, removeOk) ==
    /\ init[i].pc = "removing"
    /\ legacy' = IF removeOk THEN NoLegacy ELSE legacy
    /\ init' = [init EXCEPT ![i] = InitDone]
    /\ initialized' = TRUE
    /\ UNCHANGED <<syncPresets, syncSelected, localPresets, localSelected, gptApiKey, presets,
                   selectedPresetId, deleting, serviceVars, page, clock>>
    /\ last' = NoLast
    /\ UNCHANGED <<applied, captureVars>>

----------------------------------------------------------------------------
(* PresetManager: operations.  Each one the user starts advances the clock. *)

Tick ==
    /\ clock < MaxClock
    /\ clock' = clock + 1

Truthy(id) == id # Null /\ id # ""

\* selectPreset: the in-memory selection is assigned before saveStorage runs.
selectPreset(presetId, mode) ==
    /\ Tick
    /\ IF Truthy(presetId) /\ ~Has(presets, presetId)
       THEN /\ mode = "sync"
            /\ last' = [op |-> "select", id |-> presetId, ok |-> FALSE, error |-> "not found"]
            /\ UNCHANGED <<selectedPresetId, syncSelected, localSelected>>
       ELSE /\ selectedPresetId' = presetId
            /\ WriteSelected(presetId, mode)
            /\ last' = [op |-> "select", id |-> presetId, ok |-> mode # "fail",
                        error |-> IF mode = "fail" THEN "storage" ELSE ""]
    /\ UNCHANGED <<syncPresets, localPresets, gptApiKey, legacy, presets, initialized, init,
                   deleting, serviceVars, page>>
    /\ UNCHANGED <<applied, captureVars>>

\* handlePresetChange of the popup, for the pill the user clicks: the Off pill
\* (Null) or the pill of an enabled preset of the stored collection.  The
\* popup writes selectedPresetId to chrome.storage.sync and then sends
\* PRESET_CHANGED to the content script of the active tab, whose handler calls
\* selectPreset of its manager; a failed write is caught and nothing is sent.
\* delivery is "none" when the manager is not the one of the active tab, and
\* the way the write of selectPreset goes otherwise.
handlePresetChange(presetId, ok, delivery) ==
    /\ presetId = Null \/ (Has(syncPresets, presetId) /\ syncPresets[presetId].enabled)
    /\ Tick
    /\ IF ~ok
       THEN /\ delivery = "none"
            /\ UNCHANGED <<selectedPresetId, syncSelected, localSelected>>
       ELSE IF delivery = "none" \/ (Truthy(presetId) /\ ~Has(presets, presetId))
       THEN /\ delivery \in {"none", "sync"}
            /\ syncSelected' = presetId
            /\ UNCHANGED <<selectedPresetId, localSelected>>
       ELSE /\ selectedPresetId' = presetId
            /\ syncSelected' = presetId
            /\ localSelected' = IF delivery = "local" THEN presetId ELSE localSelected
    /\ last' = [op |-> "popupSelect", id |-> presetId, ok |-> ok,
                error |-> IF ok THEN "" ELSE "storage"]
    /\ UNCHANGED <<syncPresets, localPresets, gptApiKey, legacy, presets, initialized, init,
                   deleting, serviceVars, page>>
    /\ UNCHANGED <<applied, captureVars>>

CustomId(now) == "custom-" \o ToString(now)

\* The checks of createCustomPreset: the error thrown, or "" when it goes on.
CreateError(map, name, prompt) ==
    IF name = "" \/ prompt = "" THEN "required"
    ELSE IF Cardinality(NonSystem(map)) >= MaxCustomPresets THEN "limit"
    ELSE ""

createCustomPreset(name, prompt, mode) ==
    /\ Tick
    /\ IF CreateError(presets, name, prompt) # ""
       THEN /\ mode = "sync"
            /\ last' = [op |-> "create", id |-> Null, ok |-> FALSE,
                        error |-> CreateError(presets, name, prompt)]
            /\ UNCHANGED <<presets, syncPresets, localPresets>>
       ELSE /\ presets' = Put(presets, CustomId(clock),
                              Preset(CustomId(clock), Trim(name), Trim(prompt), FALSE, TRUE))
            /\ WritePresets(presets', mode)
            /\ last' = [op |-> "create", id |-> CustomId(clock), ok |-> TRUE, error |-> ""]
    /\ UNCHANGED <<syncSelected, localSelected, gptApiKey, legacy, selectedPresetId,
                   initialized, init, deleting, serviceVars, page>>
    /\ UNCHANGED <<applied, captureVars>>

\* updateUsageStats called on its own.
updateUsageStats(presetId, mode) ==
    /\ Tick
    /\ TotalUsage(presets) < MaxUsage
    /\ presets' = UsageUpdated(presets, presetId, clock)
    /\ IF Has(presets, presetId)
       THEN WritePresets(presets', mode)
       ELSE mode = "sync" /\ UNCHANGED <<syncPresets, localPresets>>
    /\ last' = [op |-> "usage", id |-> presetId, ok |-> TRUE, error |-> ""]
    /\ UNCHANGED <<syncSelected, localSelected, gptApiKey, legacy, selectedPresetId,
                   initialized, init, deleting, serviceVars, page>>
    /\ UNCHANGED <<applied, captureVars>>

\* The checks of PresetManager.deletePreset: the error thrown, or "".
DeleteError(map, presetId) ==
    IF ~Has(map, presetId) THEN "not found"
    ELSE IF map[presetId].isSystem THEN "system"
    ELSE ""

\* deletePreset up to its first await: the selection write when the preset
\* was selected, the save of the presets otherwise.
deletePreset(presetId, mode) ==
    /\ Tick
    /\ deleting = Null
    /\ IF DeleteError(presets, presetId) # ""
       THEN /\ mode = "sync"
            /\ last' = [op |-> "delete", id |-> presetId, ok |-> FALSE,
                        error |-> DeleteError(presets, presetId)]
            /\ UNCHANGED <<presets, selectedPresetId, deleting, syncPresets, localPresets,
                           syncSelected, localSelected>>
       ELSE /\ presets' = Remove(presets, presetId)
            /\ IF selectedPresetId = presetId
               THEN /\ selectedPresetId' = Null
                    /\ WriteSelected(Null, mode)
                    /\ deleting' = IF mode = "fail" THEN Null ELSE presetId
                    /\ last' = IF mode = "fail"
                               THEN [op |-> "delete", id |-> presetId, ok |-> FALSE,
                                     error |-> "storage"]
                               ELSE NoLast
                    /\ UNCHANGED <<syncPresets, localPresets>>
               ELSE /\ WritePresets(presets', mode)
                    /\ last' = [op |-> "delete", id |-> presetId, ok |-> TRUE, error |-> ""]
                    /\ UNCHANGED <<selectedPresetId, deleting, syncSelected, localSelected>>
    /\ UNCHANGED <<gptApiKey, legacy, initialized, init, serviceVars, page>>
    /\ UNCHANGED <<applied, captureVars>>

\* deletePreset after the selection write: savePresets, return true.
DeleteSaves(mode) ==
    /\ deleting # Null
    /\ WritePresets(presets, mode)
    /\ last' = [op |-> "delete", id |-> deleting, ok |-> TRUE, error |-> ""]
    /\ deleting' = Null
    /\ UNCHANGED <<syncSelected, localSelected, gptApiKey, legacy, presets, selectedPresetId,
                   initialized, init, serviceVars, page, clock>>
    /\ UNCHANGED <<applied, captureVars>>

----------------------------------------------------------------------------
(* YapprSettings: the preset section of the settings page.  The page reads  *)
(* and writes chrome.storage.sync only.  One handler runs at a time; its    *)
(* read is answered in the step that starts it, and a read is taken to      *)
(* succeed.  The storage listener reloads the display; it writes only when  *)
(* it reads an empty collection, as loadPresetData does when the page opens. *)

PageReady == page.open /\ page.op = "idle"

PageEnds(op, id, error) ==
    last' = [op |-> op, id |-> id, ok |-> error = "", error |-> error]

\* The object createDefaultPresets writes.
createDefaultPresets ==
    [id \in SystemIds |->
        CASE id = "default-email" ->
                 Preset(id, "Email", "Original transcript: {transcript}", TRUE, TRUE)
          [] id = "default-professional" ->
                 Preset(id, "Professional", "Original transcript: {transcript}", TRUE, TRUE)
          [] OTHER -> Preset(id, "Basic", "Text to clean: {transcript}", TRUE, TRUE)]

\* The page is opened: init -> loadStoredValues reads the store.
PageOpen ==
    /\ ~page.open
    /\ page' = [PageIdle EXCEPT !.open = TRUE, !.op = "load", !.snap = syncPresets]
    /\ UNCHANGED <<storeVars, managerVars, serviceVars, clock>>
    /\ last' = NoLast
    /\ UNCHANGED <<applied, captureVars>>

\* loadPresetData: with no presets in what was read, createDefaultPresets
\* writes the three defaults; a failed write is caught.
PageLoads(ok) ==
    /\ page.op = "load"
    /\ IF page.snap = EmptyMap
       THEN syncPresets' = IF ok THEN createDefaultPresets ELSE syncPresets
       ELSE ok /\ UNCHANGED syncPresets
    /\ page' = [page EXCEPT !.op = "idle", !.snap = EmptyMap]
    /\ UNCHANGED <<syncSelected, localPresets, localSelected, gptApiKey, legacy, managerVars,
                   serviceVars, clock>>
    /\ last' = NoLast
    /\ UNCHANGED <<applied, captureVars>>

showAddPresetDialog ==
    /\ PageReady
    /\ IF Cardinality(NonSystem(syncPresets)) >= MaxCustomPresets
       THEN /\ PageEnds("showAdd", Null, "limit")
            /\ UNCHANGED page
       ELSE /\ page' = [page EXCEPT !.editing = Null, !.modal = TRUE]
            /\ PageEnds("showAdd", Null, "")
    /\ UNCHANGED <<storeVars, managerVars, serviceVars, clock>>
    /\ UNCHANGED <<applied, captureVars>>

editPreset(presetId) ==
    /\ PageReady
    /\ IF ~Has(syncPresets, presetId)
       THEN /\ PageEnds("edit", presetId, "not found")
            /\ UNCHANGED page
       ELSE /\ page' = [page EXCEPT !.editing = presetId, !.modal = TRUE]
            /\ PageEnds("edit", presetId, "")
    /\ UNCHANGED <<storeVars, managerVars, serviceVars, clock>>
    /\ UNCHANGED <<applied, captureVars>>

closePresetEditor ==
    /\ PageReady
    /\ page.modal
    /\ page' = [page EXCEPT !.editing = Null, !.modal = FALSE]
    /\ UNCHANGED <<storeVars, managerVars, serviceVars, clock>>
    /\ last' = NoLast
    /\ UNCHANGED <<applied, captureVars>>

\* The validation at the head of savePresetChanges: the alert, or "".
FormError(presetName, prompt) ==
    IF presetName = "" THEN "name required"
    ELSE IF prompt = "" THEN "prompt required"
    ELSE IF Len(prompt) > MaxPromptLength THEN "prompt too long"
    ELSE ""

\* savePresetChanges up to the answer of its read.
savePresetChanges(name, prompt, isEnabled) ==
    /\ PageReady
    /\ page.modal
    /\ Tick
    /\ IF FormError(Trim(name), Trim(prompt)) # ""
       THEN /\ PageEnds("save", page.editing, FormError(Trim(name), Trim(prompt)))
            /\ UNCHANGED page
       ELSE /\ page' = [page EXCEPT !.op = "save", !.snap = syncPresets,
                                    !.form = [name |-> Trim(name), prompt |-> Trim(prompt),
                                              enabled |-> isEnabled]]
            /\ last' = NoLast
    /\ UNCHANGED <<storeVars, managerVars, serviceVars>>
    /\ UNCHANGED <<applied, captureVars>>

\* Some preset other than self carries the name, ignoring case.
duplicateName(map, presetName, self) ==
    \E id \in DOMAIN map :
        id # self /\ ToLowerCase(map[id].name) = ToLowerCase(presetName)

PageCustomId(now) == CustomId(now) \o "-r"

\* The create branch: the alert, or "".
PageCreateError(map, form) ==
    IF Cardinality(NonSystem(map)) >= MaxCustomPresets THEN "limit"
    ELSE IF duplicateName(map, form.name, Null) THEN "duplicate"
    ELSE ""

SystemUpdateWithName(existing, form) ==
    [existing EXCEPT !.name = form.name, !.prompt = form.prompt, !.enabled = form.enabled]

\* The edit branch on a system preset: prompt and enabled only.
SystemUpdate(existing, form) ==
    [existing EXCEPT !.prompt = form.prompt, !.enabled = form.enabled]

CustomUpdate(existing, form) ==
    [existing EXCEPT !.name = form.name, !.prompt = form.prompt, !.enabled = form.enabled]

\* The edit branch: the alert, or "".
PageEditError(map, editing, form) ==
    IF ~Has(map, editing) THEN "not found"
    ELSE IF /\ ~map[editing].isSystem
            /\ form.name # map[editing].name
            /\ duplicateName(map, form.name, editing) THEN "duplicate"
    ELSE ""

PageSaveError(map, editing, form) ==
    IF editing = Null THEN PageCreateError(map, form) ELSE PageEditError(map, editing, form)

\* The object savePresetChanges writes when no alert ends it.
PageSaved(map, editing, form, now) ==
    IF editing = Null
    THEN Put(map, PageCustomId(now),
             Preset(PageCustomId(now), form.name, form.prompt, FALSE, form.enabled))
    ELSE [map EXCEPT ![editing] = IF map[editing].isSystem
                                  THEN SystemUpdate(map[editing], form)
                                  ELSE CustomUpdate(map[editing], form)]

\* savePresetChanges from the answer of its read to its end.
SaveWrites(ok) ==
    /\ page.op = "save"
    /\ LET error == PageSaveError(page.snap, page.editing, page.form)
       IN  IF error # ""
           THEN /\ ok
                /\ PageEnds("save", page.editing, error)
                /\ page' = [page EXCEPT !.op = "idle", !.snap = EmptyMap, !.form = NoForm]
                /\ UNCHANGED syncPresets
           ELSE IF ok
           THEN /\ syncPresets' = PageSaved(page.snap, page.editing, page.form, clock)
                /\ PageEnds("save", page.editing, "")
                /\ page' = [page EXCEPT !.op = "idle", !.snap = EmptyMap, !.form = NoForm,
                                        !.editing = Null, !.modal = FALSE]
           ELSE /\ PageEnds("save", page.editing, "storage")
                /\ page' = [page EXCEPT !.op = "idle", !.snap = EmptyMap, !.form = NoForm]
                /\ UNCHANGED syncPresets
    /\ UNCHANGED <<syncSelected, localPresets, localSelected, gptApiKey, legacy, managerVars,
                   serviceVars, clock>>
    /\ UNCHANGED <<applied, captureVars>>

\* togglePresetEnabled up to the answer of its read.
togglePresetEnabled(presetId) ==
    /\ PageReady
    /\ Tick
    /\ IF ~Has(syncPresets, presetId)
       THEN /\ PageEnds("toggle", presetId, "not found")
            /\ UNCHANGED page
       ELSE /\ page' = [page EXCEPT !.op = "toggle", !.target = presetId,
                                    !.snap = syncPresets]
            /\ last' = NoLast
    /\ UNCHANGED <<storeVars, managerVars, serviceVars>>
    /\ UNCHANGED <<applied, captureVars>>

ToggleWrites(ok) ==
    /\ page.op = "toggle"
    /\ syncPresets' = IF ok THEN [page.snap EXCEPT ![page.target].enabled = ~@]
                      ELSE syncPresets
    /\ PageEnds("toggle", page.target, IF ok THEN "" ELSE "storage")
    /\ page' = [page EXCEPT !.op = "idle", !.target = Null, !.snap = EmptyMap]
    /\ UNCHANGED <<syncSelected, localPresets, localSelected, gptApiKey, legacy, managerVars,
                   serviceVars, clock>>
    /\ UNCHANGED <<applied, captureVars>>

\* YapprSettings.deletePreset up to the answer of confirm().
PageDeletePreset(presetId, confirmDelete) ==
    /\ PageReady
    /\ Tick
    /\ IF DeleteError(syncPresets, presetId) # ""
       THEN /\ confirmDelete
            /\ PageEnds("pageDelete", presetId, DeleteError(syncPresets, presetId))
            /\ UNCHANGED page
       ELSE IF ~confirmDelete
       THEN /\ PageEnds("pageDelete", presetId, "cancelled")
            /\ UNCHANGED page
       ELSE /\ page' = [page EXCEPT !.op = "delete", !.target = presetId,
                                    !.snap = syncPresets]
            /\ last' = NoLast
    /\ UNCHANGED <<storeVars, managerVars, serviceVars>>
    /\ UNCHANGED <<applied, captureVars>>

\* The write of the collection without the preset.
PageDeleteWrites(ok) ==
    /\ page.op = "delete"
    /\ IF ok
       THEN /\ syncPresets' = Remove(page.snap, page.target)
            /\ page' = [page EXCEPT !.op = "deleteRead", !.snap = EmptyMap]
            /\ last' = NoLast
       ELSE /\ PageEnds("pageDelete", page.target, "storage")
            /\ page' = [page EXCEPT !.op = "idle", !.target = Null, !.snap = EmptyMap]
            /\ UNCHANGED syncPresets
    /\ UNCHANGED <<syncSelected, localPresets, localSelected, gptApiKey, legacy, managerVars,
                   serviceVars, clock>>
    /\ UNCHANGED <<applied, captureVars>>

\* The store answers the read of selectedPresetId.
PageDeleteReads ==
    /\ page.op = "deleteRead"
    /\ IF syncSelected = page.target
       THEN /\ page' = [page EXCEPT !.op = "deleteClear"]
            /\ last' = NoLast
       ELSE /\ PageEnds("pageDelete", page.target, "")
            /\ page' = [page EXCEPT !.op = "idle", !.target = Null]
    /\ UNCHANGED <<storeVars, managerVars, serviceVars, clock>>
    /\ UNCHANGED <<applied, captureVars>>

\* The write of selectedPresetId: null.
PageDeleteClears(ok) ==
    /\ page.op = "deleteClear"
    /\ syncSelected' = IF ok THEN Null ELSE syncSelected
    /\ PageEnds("pageDelete", page.target, IF ok THEN "" ELSE "storage")
    /\ page' = [page EXCEPT !.op = "idle", !.target = Null]
    /\ UNCHANGED <<syncPresets, localPresets, localSelected, gptApiKey, legacy, managerVars,
                   serviceVars, clock>>
    /\ UNCHANGED <<applied, captureVars>>

(* The objects of the content script that capture a dictation, as their
   constructors leave them. *)

Constructed ==
    [recorder |->
        [isRecording |-> FALSE,
         stream |-> 0,           \* 0: null
         mediaRecorder |-> 0,    \* 0: null
         audioChunks |-> <<>>,
         calls |-> [c \in CallIds |-> "idle"],  \* handleToggleRecording, by slot
         live |-> {},        \* streams whose tracks run
         active |-> {},      \* MediaRecorders in state 'recording'
         stopping |-> {},    \* MediaRecorders whose stop event is queued
         opened |-> 0],      \* streams getUserMedia has handed out
     history |->
        [stored |-> <<>>,
         made |-> 0,         \* records created so far
         calls |-> [c \in CallIds |->     \* addTranscription, by slot
                      [pc |-> "idle", id |-> 0, snap |-> <<>>, result |-> FALSE]]],
     tracker |->
        [isEnabled |-> TRUE, events |-> <<>>,
         tracked |-> 0,      \* events accepted so far
         flights |-> [c \in CallIds |->   \* aggregateAndStore, by slot
                        [pc |-> "idle", data |-> {}, existing |-> <<>>]],
         stored |-> <<>>]]   \* chrome.storage.local 'yapprUsageAnalytics'

----------------------------------------------------------------------------
(* The enhancement service over a loaded preset collection *)

LongTranscript == Repeat("a", MaxTranscriptLength + 1)

Transcripts == {Absent, Str(""), Str("  "), Str("hello world"), Str(LongTranscript)}

\* A collection as the settings page can leave it: one system preset switched
\* off, and a custom preset whose prompt names a variable enhance never binds.
StoredPresets ==
    LET d == getDefaultPresetsDefinition
    IN  Put(Put(Put(Put(EmptyMap, d[1].id, d[1]),
                    d[2].id, [d[2] EXCEPT !.enabled = FALSE]),
                d[3].id, d[3]),
            "custom-0", Preset("custom-0", "Notes", "About {topic}: {transcript}", FALSE, TRUE))

PresetIdArgs == {Null, "default-email", "default-professional", "custom-0", "custom-9"}

InitEnhance ==
    /\ syncPresets = StoredPresets
    /\ syncSelected \in {Null, "default-email", "default-professional"}
    /\ localPresets = EmptyMap
    /\ localSelected = Null
    /\ gptApiKey \in {"", "sk-test"}
    /\ legacy = NoLegacy
    /\ presets = syncPresets
    /\ selectedPresetId = syncSelected
    /\ initialized = TRUE
    /\ init = [i \in InitIds |-> InitDone]
    /\ deleting = Null
    /\ isProcessing = FALSE
    /\ calls = [c \in CallIds |-> Idle]
    /\ returned = NoReturn
    /\ page = PageIdle
    /\ clock = 1
    /\ last = NoLast
    /\ applied = NoApplied
    /\ recorder = Constructed.recorder
    /\ history = Constructed.history
    /\ tracker = Constructed.tracker

NextEnhance ==
    \/ \E c \in CallIds, t \in Transcripts, id \in PresetIdArgs : enhanceTranscript(c, t, id)
    \/ \E c \in CallIds : PresetResolves(c)
    \/ \E c \in CallIds, readOk \in BOOLEAN : KeyResolves(c, readOk)
    \/ \E c \in CallIds, outcome \in FetchOutcomes : FetchSettles(c, outcome)
    \/ \E c \in CallIds, readOk \in BOOLEAN : ErrorTextSettles(c, readOk)
    \/ \E c \in CallIds, body \in Bodies, mode \in WriteModes : JsonSettles(c, body, mode)
    \/ \E c \in CallIds : UsageResolves(c)

SpecEnhance == InitEnhance /\ [][NextEnhance]_vars

\* What the runtime guarantees of a call in flight: a read of chrome.storage
\* is answered, and the timer callOpenAI sets aborts a fetch that is still
\* pending.  callOpenAI clears the timer as soon as fetch has resolved with the
\* response headers; nothing bounds the delivery of the headers or of the body.
SpecEnhanceFair ==
    /\ SpecEnhance
    /\ \A c \in CallIds :
          /\ WF_vars(PresetResolves(c))
          /\ WF_vars(\E readOk \in BOOLEAN : KeyResolves(c, readOk))
          /\ WF_vars(FetchSettles(c, [kind |-> "abort", status |-> 0]))
          /\ WF_vars(UsageResolves(c))

----------------------------------------------------------------------------
(* Claims about the enhancement service *)

InFlight == {c \in CallIds : calls[c].pc # "idle"}

PastTheLLM == {"awaitFetch", "awaitText", "awaitJson", "awaitUsage"}

\* C1: every enhance call given a transcript that ends without success returns
\* success = false and, as result, the transcript exactly as the caller
\* passed it, whatever the cause of the failure and the transcript's length.
C1_FailOpen ==
    (returned.ended /\ ~returned.arg.absent /\ ~returned.value.success)
        => (~returned.threw /\ returned.value.result = returned.arg)

\* C2: at most one enhance call is past the busy check at any time; a call
\* that starts while another is suspended ends in that very step, leaves the
\* suspended call and every collaborator untouched, and (given a transcript)
\* hands back the fallback tagged 'already processing'.
\* A call of enhanceTranscript starts in this step: it takes a free slot, or
\* it ends at once and leaves the slots as they are.
CallStarts ==
    \/ \E c \in CallIds : calls[c].pc = "idle" /\ calls'[c].pc # "idle"
    \/ returned'.ended /\ calls' = calls

C2_Rejects ==
    (InFlight # {} /\ CallStarts)
        => /\ returned'.ended /\ returned'.busy /\ returned'.collab = 0
           /\ UNCHANGED <<calls, isProcessing, storeVars, managerVars>>
           /\ ~returned'.arg.absent
                 => /\ ~returned'.threw /\ ~returned'.value.success
                    /\ returned'.value.fallbackReason = "already processing"
                    /\ returned'.value.result = returned'.arg

C3_NeverRaises ==
    returned.ended => (~returned.threw /\ ~returned.value.originalText.absent)

\* C10: a preset whose enabled flag is false is never the preset used by an
\* enhancement: no call reaches the LLM with a disabled preset, and a call
\* given a transcript to enhance and the explicit id of a disabled preset
\* falls back with 'no preset selected'.
C10_DisabledNeverUsed ==
    /\ \A c \in CallIds :
          (calls[c].pc \in PastTheLLM /\ Has(presets, calls[c].preset.id))
              => presets[calls[c].preset.id].enabled
    /\ (/\ returned.ended /\ ~returned.busy /\ ~IsBlank(returned.arg)
        /\ Has(presets, returned.presetId) /\ ~presets[returned.presetId].enabled)
           => returned.value.fallbackReason = "no preset selected"

----------------------------------------------------------------------------
(* The preset operations: a manager under construction, the settings page   *)
(* and the store                                                            *)

LegacyPrompts ==
    [site \in Sites |->
        CASE site = "twitter" -> [prompt |-> "Tweet: {transcript}", enabled |-> "unset"]
          [] site = "linkedin" -> [prompt |-> "Post: {transcript}", enabled |-> "true"]
          [] OTHER -> [prompt |-> "Mail: {transcript}", enabled |-> "false"]]

LegacyConfigs == {NoLegacy, LegacyPrompts}

NameInputs == {"email", "Recap"}
PromptInputs == {"", "Polish: {transcript}"}
LongPrompt == Repeat("p", MaxPromptLength + 1)
SelectArgs == {Null, "default-email", "custom-0", "custom-9"}
PresetArgs == {"default-email", "custom-0", "custom-9"}

InitPresets ==
    /\ \/ syncPresets = EmptyMap /\ syncSelected = Null /\ legacy \in LegacyConfigs
       \/ /\ syncPresets = StoredPresets
          /\ syncSelected \in {Null, "custom-0"}
          /\ legacy = NoLegacy
    /\ localPresets = EmptyMap
    /\ localSelected = Null
    /\ gptApiKey = ""
    /\ presets = EmptyMap
    /\ selectedPresetId = Null
    /\ initialized = FALSE
    /\ init = [i \in InitIds |-> IF i = "constructor"
                                 THEN [InitIdle EXCEPT !.pc = "reading"]
                                 ELSE InitIdle]
    /\ deleting = Null
    /\ isProcessing = FALSE
    /\ calls = [c \in CallIds |-> Idle]
    /\ returned = NoReturn
    /\ page = PageIdle
    /\ clock = 1
    /\ last = NoLast
    /\ applied = NoApplied
    /\ recorder = Constructed.recorder
    /\ history = Constructed.history
    /\ tracker = Constructed.tracker

\* createCustomPreset and deletePreset of the manager have no caller in the
\* extension; they are exercised here on a manager whose init has ended.
CallerCreates(name, prompt, mode) == initialized /\ createCustomPreset(name, prompt, mode)

CallerDeletes(presetId, mode) == initialized /\ deletePreset(presetId, mode)

NextPresets ==
    \/ \E i \in InitIds, mode \in ReadModes : StorageRead(i, mode)
    \/ \E i \in InitIds, mode \in WriteModes : LoadPresets(i, mode)
    \/ \E i \in InitIds, readOk \in BOOLEAN : LegacyRead(i, readOk)
    \/ \E i \in InitIds, mode \in WriteModes : Migrate(i, mode)
    \/ \E i \in InitIds, removeOk \in BOOLEAN : RemoveLegacy(i, removeOk)
    \/ \E id \in SelectArgs, mode \in WriteModes : selectPreset(id, mode)
    \/ \E name \in NameInputs, prompt \in PromptInputs, mode \in WriteModes :
            CallerCreates(name, prompt, mode)
    \/ \E id \in PresetArgs, mode \in WriteModes : updateUsageStats(id, mode)
    \/ \E id \in PresetArgs, mode \in WriteModes : CallerDeletes(id, mode)
    \/ \E mode \in WriteModes : DeleteSaves(mode)
    \/ PageOpen
    \/ \E ok \in BOOLEAN : PageLoads(ok)
    \/ showAddPresetDialog
    \/ \E id \in PresetArgs : editPreset(id)
    \/ closePresetEditor
    \/ \E name \in NameInputs, prompt \in PromptInputs \cup {LongPrompt},
         isEnabled \in BOOLEAN : savePresetChanges(name, prompt, isEnabled)
    \/ \E ok \in BOOLEAN : SaveWrites(ok)
    \/ \E id \in PresetArgs : togglePresetEnabled(id)
    \/ \E ok \in BOOLEAN : ToggleWrites(ok)
    \/ \E id \in PresetArgs, confirmDelete \in BOOLEAN : PageDeletePreset(id, confirmDelete)
    \/ \E ok \in BOOLEAN : PageDeleteWrites(ok)
    \/ PageDeleteReads
    \/ \E ok \in BOOLEAN : PageDeleteClears(ok)

SpecPresets == InitPresets /\ [][NextPresets]_vars

----------------------------------------------------------------------------
(* Two runs of init on one manager: the one the constructor starts, and the  *)
(* one getSelectedPreset starts when it is called before initialized is set. *)
(* Every read and every write of the storage succeeds.                      *)

\* getSelectedPreset on a manager whose init has not ended: await this.init().
getSelectedPreset ==
    /\ ~initialized
    /\ init["getSelectedPreset"].pc = "idle"
    /\ init' = [init EXCEPT !["getSelectedPreset"] = [InitIdle EXCEPT !.pc = "reading"]]
    /\ last' = NoLast
    /\ UNCHANGED <<storeVars, presets, selectedPresetId, initialized, deleting, serviceVars,
                   page, clock>>
    /\ UNCHANGED <<applied, captureVars>>

NextInit ==
    \/ getSelectedPreset
    \/ \E i \in InitIds : StorageRead(i, "sync")
    \/ \E i \in InitIds : LoadPresets(i, "sync")
    \/ \E i \in InitIds : LegacyRead(i, TRUE)
    \/ \E i \in InitIds : Migrate(i, "sync")
    \/ \E i \in InitIds : RemoveLegacy(i, TRUE)

SpecInit == InitPresets /\ [][NextInit]_vars

----------------------------------------------------------------------------
(* The selection: the manager from its construction on, with selectPreset,  *)
(* deletePreset and the preset pills of the popup.  Every read and every     *)
(* write of the storage succeeds.                                           *)

NextSelection ==
    \/ \E i \in InitIds : StorageRead(i, "sync")
    \/ \E i \in InitIds : LoadPresets(i, "sync")
    \/ \E i \in InitIds : LegacyRead(i, TRUE)
    \/ \E i \in InitIds : Migrate(i, "sync")
    \/ \E i \in InitIds : RemoveLegacy(i, TRUE)
    \/ \E id \in SelectArgs : selectPreset(id, "sync")
    \/ \E id \in PresetArgs : CallerDeletes(id, "sync")
    \/ DeleteSaves("sync")
    \/ \E id \in SelectArgs \cup {"default-basic"}, delivery \in {"none", "sync"} :
            handlePresetChange(id, TRUE, delivery)

SpecSelection == InitPresets /\ [][NextSelection]_vars

----------------------------------------------------------------------------
(* The enhancement service while presets are deleted: by deletePreset of the *)
(* manager, and by the settings page, which runs in a context of its own and *)
(* shares only chrome.storage.sync with the manager.                         *)

\* The stored collection with one more custom preset, whose prompt renders.
InitDeletion ==
    /\ syncPresets = Put(StoredPresets, "custom-1",
                         Preset("custom-1", "Fix", "Fix: {transcript}", FALSE, TRUE))
    /\ syncSelected \in {Null, "custom-1"}
    /\ localPresets = EmptyMap
    /\ localSelected = Null
    /\ gptApiKey = "sk-test"
    /\ legacy = NoLegacy
    /\ presets = syncPresets
    /\ selectedPresetId = syncSelected
    /\ initialized = TRUE
    /\ init = [i \in InitIds |-> InitDone]
    /\ deleting = Null
    /\ isProcessing = FALSE
    /\ calls = [c \in CallIds |-> Idle]
    /\ returned = NoReturn
    /\ page = PageIdle
    /\ clock = 1
    /\ last = NoLast
    /\ applied = NoApplied
    /\ recorder = Constructed.recorder
    /\ history = Constructed.history
    /\ tracker = Constructed.tracker

NextDeletion ==
    \/ \E c \in CallIds, id \in {Null, "custom-1"} :
            enhanceTranscript(c, Str("hello world"), id)
    \/ \E c \in CallIds : PresetResolves(c)
    \/ \E c \in CallIds, readOk \in BOOLEAN : KeyResolves(c, readOk)
    \/ \E c \in CallIds, outcome \in FetchOutcomes : FetchSettles(c, outcome)
    \/ \E c \in CallIds, readOk \in BOOLEAN : ErrorTextSettles(c, readOk)
    \/ \E c \in CallIds, body \in Bodies, mode \in WriteModes : JsonSettles(c, body, mode)
    \/ \E c \in CallIds : UsageResolves(c)
    \/ \E id \in {"custom-0", "custom-1"}, mode \in WriteModes : CallerDeletes(id, mode)
    \/ \E mode \in WriteModes : DeleteSaves(mode)
    \/ PageOpen
    \/ \E ok \in BOOLEAN : PageLoads(ok)
    \/ \E id \in {"custom-0", "custom-1"}, confirmDelete \in BOOLEAN :
            PageDeletePreset(id, confirmDelete)
    \/ \E ok \in BOOLEAN : PageDeleteWrites(ok)
    \/ PageDeleteReads
    \/ \E ok \in BOOLEAN : PageDeleteClears(ok)

SpecDeletion == InitDeletion /\ [][NextDeletion]_vars

----------------------------------------------------------------------------
(* Claims about the preset collection.  The persisted collection is the one *)
(* in chrome.storage.sync, which the popup and the settings page read.      *)

\* C4: after any sequence of preset operations, initialization with legacy
\* migration included, the collection in memory and the persisted one hold at
\* most 2 presets that are not system presets.
C4_CustomLimit ==
    /\ Cardinality(NonSystem(presets)) <= MaxCustomPresets
    /\ Cardinality(NonSystem(syncPresets)) <= MaxCustomPresets

\* The step belongs to an explicit delete of the preset.
DeleteStepOf(id) ==
    \/ page.op = "delete" /\ page.target = id
    \/ deleting = id
    \/ last'.op = "delete" /\ last'.id = id

\* C5: a custom preset in the persisted collection stays there in every step
\* that is not part of an explicit delete of that preset.
C5_CustomStays ==
    [][\A id \in NonSystem(syncPresets) : Has(syncPresets', id) \/ DeleteStepOf(id)]_vars

UniqueNames(map) ==
    \A a, b \in DOMAIN map : a # b => ToLowerCase(map[a].name) # ToLowerCase(map[b].name)

\* C6: no two presets of the collection, in memory or persisted, have names
\* that are equal ignoring case.
C6_UniqueNames == UniqueNames(presets) /\ UniqueNames(syncPresets)

\* The step is one of an update or delete operation: a write of the settings
\* page's edit, toggle or delete, or a step of the manager's usage update or
\* delete.
UpdateOrDeleteStep ==
    \/ page.op = "save" /\ page.editing # Null /\ page'.op = "idle"
    \/ page.op \in {"toggle", "delete"} /\ page'.op # page.op
    \/ last'.op \in {"usage", "delete", "pageDelete"}
    \/ deleting' # deleting

SystemKept(before, after) ==
    \A id \in DOMAIN before :
        before[id].isSystem =>
            /\ Has(after, id)
            /\ after[id].id = before[id].id
            /\ after[id].name = before[id].name
            /\ after[id].isSystem

\* A delete of a system preset is asked for in this step.
SystemDeleteStep ==
    \/ /\ last'.op = "delete"
       /\ deleting = Null
       /\ Has(presets, last'.id) /\ presets[last'.id].isSystem
    \/ /\ last'.op = "pageDelete"
       /\ page.op = "idle"
       /\ Has(syncPresets, last'.id) /\ syncPresets[last'.id].isSystem

C8_DeleteClearsSelection ==
    [][(last'.op \in {"delete", "pageDelete"} /\ last'.ok)
            => (selectedPresetId' # last'.id /\ syncSelected' # last'.id)]_vars

\* C9: selectPreset of an id that is not in the collection fails and leaves
\* the selection, in memory and persisted, as it was; of an existing id or of
\* none it sets the selection in memory and a persisted one to that value,
\* unless the write fails, and then the selection in memory is as it was.
C9_SelectPreset ==
    [][\A id \in SelectArgs, mode \in WriteModes :
          selectPreset(id, mode) =>
            IF Truthy(id) /\ ~Has(presets, id)
            THEN ~last'.ok /\ UNCHANGED <<selectedPresetId, syncSelected, localSelected>>
            ELSE IF last'.ok
            THEN selectedPresetId' = id /\ (syncSelected' = id \/ localSelected' = id)
            ELSE selectedPresetId' = selectedPresetId]_vars

\* C11: a preset's usageCount never decreases, in memory or persisted, and a
\* usage update of a preset of the collection (the step an enhance call makes
\* on its way to returning success) adds exactly 1 to it in memory and, unless
\* the write fails, in the store written.
UsageKept(before, after) ==
    \A id \in DOMAIN before \cap DOMAIN after :
        after[id].usageCount >= before[id].usageCount

C11_UsageStep ==
    (last'.op = "usage" /\ Has(presets, last'.id))
        => /\ presets'[last'.id].usageCount = presets[last'.id].usageCount + 1
           /\ \A id \in DOMAIN presets \ {last'.id} :
                 presets'[id].usageCount = presets[id].usageCount
           /\ \/ syncPresets' = presets'
              \/ localPresets' = presets'
              \/ UNCHANGED <<syncPresets, localPresets>>

C11_UsageMonotonic ==
    /\ [][UsageKept(presets, presets') /\ UsageKept(syncPresets, syncPresets')]_vars
    /\ [][C11_UsageStep]_vars

\* The step in which loadPresets and ensureDefaultPresets of an init run end.
LoadStep == \E i \in InitIds : init[i].pc = "loading" /\ init'[i].pc = "readingLegacy"

\* C12: once initialization has completed the collection in memory holds the
\* three system presets; the load keeps every system preset that is persisted
\* exactly as it is persisted, in memory and in the store, and inserts and
\* saves only the missing ones.
C12_LoadKeeps ==
    LoadStep =>
        /\ SystemIds \subseteq DOMAIN presets'
        /\ \A id \in SystemIds \cap DOMAIN syncPresets :
              presets'[id] = syncPresets[id] /\ syncPresets'[id] = syncPresets[id]
        /\ \A id \in SystemIds \ DOMAIN syncPresets :
              \E k \in 1..Len(getDefaultPresetsDefinition) :
                  presets'[id] = getDefaultPresetsDefinition[k]
        /\ (SystemIds \subseteq DOMAIN syncPresets) => UNCHANGED <<syncPresets, localPresets>>

C12_DefaultsEnsured ==
    /\ [](initialized => SystemIds \subseteq DOMAIN presets)
    /\ [][C12_LoadKeeps]_vars

----------------------------------------------------------------------------
(* The legacy migration over popup sessions: every time the popup is opened *)
(* a new PresetManager is constructed and its init runs the migration.      *)

\* The popup is opened again once the manager of the session before has
\* ended its init: new PresetManager().
NewManager ==
    /\ initialized
    /\ init["constructor"].pc = "done"
    /\ presets' = EmptyMap
    /\ selectedPresetId' = Null
    /\ initialized' = FALSE
    /\ init' = [init EXCEPT !["constructor"] = [InitIdle EXCEPT !.pc = "reading"]]
    /\ last' = NoLast
    /\ UNCHANGED <<storeVars, deleting, serviceVars, page, clock>>
    /\ UNCHANGED <<applied, captureVars>>

InitMigration ==
    /\ syncPresets \in {EmptyMap, StoredPresets}
    /\ syncSelected = Null
    /\ legacy \in LegacyConfigs
          \cup {[NoLegacy EXCEPT !["gmail"] = [prompt |-> "Mail: {transcript}", enabled |-> "true"]]}
    /\ localPresets = EmptyMap
    /\ localSelected = Null
    /\ gptApiKey = ""
    /\ presets = EmptyMap
    /\ selectedPresetId = Null
    /\ initialized = FALSE
    /\ init = [i \in InitIds |-> IF i = "constructor"
                                 THEN [InitIdle EXCEPT !.pc = "reading"]
                                 ELSE InitIdle]
    /\ deleting = Null
    /\ isProcessing = FALSE
    /\ calls = [c \in CallIds |-> Idle]
    /\ returned = NoReturn
    /\ page = PageIdle
    /\ clock = 1
    /\ last = NoLast
    /\ applied = NoApplied
    /\ recorder = Constructed.recorder
    /\ history = Constructed.history
    /\ tracker = Constructed.tracker

NextMigration ==
    \/ \E i \in InitIds, mode \in ReadModes : StorageRead(i, mode)
    \/ \E i \in InitIds, mode \in WriteModes : LoadPresets(i, mode)
    \/ \E i \in InitIds, readOk \in BOOLEAN : LegacyRead(i, readOk)
    \/ \E i \in InitIds, mode \in WriteModes : Migrate(i, mode)
    \/ \E i \in InitIds, removeOk \in BOOLEAN : RemoveLegacy(i, removeOk)
    \/ NewManager
    \/ \E id \in {"default-email", "migrated-linkedin", "migrated-gmail"},
          mode \in WriteModes : updateUsageStats(id, mode)
    \/ PageOpen
    \/ \E ok \in BOOLEAN : PageLoads(ok)
    \/ \E id \in {"default-email", "migrated-linkedin", "migrated-gmail"} :
          togglePresetEnabled(id)
    \/ \E ok \in BOOLEAN : ToggleWrites(ok)

SpecMigration == InitMigration /\ [][NextMigration]_vars

\* A step of a migration run: the read of the legacy keys is answered, the
\* presets are built, or the legacy keys are removed.
MigrationStep ==
    \E i \in InitIds :
        init[i].pc \in {"readingLegacy", "migrating", "removing"} /\ init'[i] # init[i]

MigratedIds == {MigratedId(site) : site \in Sites}

\* C13: a run of the legacy migration that finds no legacy prompt key changes
\* neither the collection in memory nor the store: it adds no preset, saves
\* nothing and removes nothing, and the presets migrated by an earlier run keep
\* their enabled flag and usage statistics.
C13_RerunIsNoOp ==
    [][(MigrationStep /\ legacy = NoLegacy)
          => /\ UNCHANGED <<presets, selectedPresetId, storeVars>>
             /\ \A id \in MigratedIds \cap DOMAIN presets :
                   /\ presets'[id].enabled = presets[id].enabled
                   /\ presets'[id].usageCount = presets[id].usageCount
                   /\ presets'[id].lastUsed = presets[id].lastUsed]_vars

\* A later session's migration has ended on a collection whose migrated
\* preset had been used in the session before.
C13_Witness ==
    /\ last.op = "migrate"
    /\ initialized
    /\ legacy = NoLegacy
    /\ Has(presets, "migrated-linkedin")
    /\ presets["migrated-linkedin"].usageCount = 1
    /\ syncPresets = presets

\* The step in which a migration run builds the presets from the legacy keys
\* it has read.
BuildStep(i) == init[i].pc = "migrating" /\ init'[i].pc # "migrating"

\* C14: each legacy per-site prompt found by the migration becomes one preset
\* that is not a system preset and is enabled exactly when the legacy enabled
\* flag of its site was true (disabled when the flag is absent or false); the
\* run then removes the legacy keys.
C14_MigratedEnabled ==
    /\ [][\A i \in InitIds : BuildStep(i) =>
            \A site \in Sites :
                init[i].oldData[site].prompt # "" =>
                    /\ Has(presets', MigratedId(site))
                    /\ ~presets'[MigratedId(site)].isSystem
                    /\ presets'[MigratedId(site)].prompt = init[i].oldData[site].prompt
                    /\ presets'[MigratedId(site)].enabled
                          = (init[i].oldData[site].enabled = "true")]_vars
    /\ [][(\E i \in InitIds : init[i].pc = "removing" /\ init'[i].pc = "done")
            => legacy' = NoLegacy]_vars

----------------------------------------------------------------------------
(* The text functions on their own: the extension as constructed, and one   *)
(* application of a function to arguments drawn from a bounded set.         *)

(* Each action applies its function to the arguments held: out is the      *)
(* result.                                                                  *)

----------------------------------------------------------------------------
(* TemplateEngine.render *)

Render ==
    /\ applied.fn = "render" /\ ~applied.done
    /\ applied' = [applied EXCEPT !.done = TRUE, !.out = render(applied.args[1], applied.args[2])]
    /\ UNCHANGED <<storeVars, managerVars, serviceVars, captureVars, page, clock, last>>

Rendered == applied.fn = "render" /\ applied.done

\* The names of the placeholders of a template: a '{', the characters up to
\* the next '}' (at least one), and that '}'; a '{' inside a placeholder
\* does not start another one.
PlaceholderNames(t) ==
    {SubSeq(t, i + 1, j - 1) : <<i, j>> \in
        {ij \in (1..Len(t)) \X (1..Len(t)) :
            /\ CharAt(t, ij[1]) = "{" /\ CharAt(t, ij[2]) = "}"
            /\ ij[2] > ij[1] + 1
            /\ \A k \in (ij[1] + 1)..(ij[2] - 1) : CharAt(t, k) # "}"
            /\ \A k \in 1..(ij[1] - 1) :
                  CharAt(t, k) = "{" => \E m \in (k + 1)..(ij[1] - 1) : CharAt(t, m) = "}"}}

\* name is bound in the variables v to a value that is not null, undefined
\* or ''.
Bound(v, name) ==
    \E k \in 1..Len(v) : v[k][1] = name /\ ~v[k][2].absent /\ v[k][2].text # ""

Unbound(t, v) == {name \in PlaceholderNames(t) : ~Bound(v, name)}

\* A failed render reports exactly the unbound names, each once, and hands
\* back the empty result.
ReportsUnbound(t, v, out) ==
    /\ {out.missingVars[k] : k \in 1..Len(out.missingVars)} = Unbound(t, v)
    /\ Len(out.missingVars) = Cardinality(Unbound(t, v))
    /\ out.result = ""

RECURSIVE Replaced(_, _, _)
Replaced(t, v, i) ==
    LET open == IndexOf(t, "{", i)
        close == IF open = 0 THEN 0 ELSE IndexOf(t, "}", open + 1)
    IN  IF open = 0 \/ close = 0 THEN SubSeq(t, i, Len(t))
        ELSE IF close = open + 1 THEN SubSeq(t, i, open) \o Replaced(t, v, open + 1)
        ELSE SubSeq(t, i, open - 1)
             \o Lookup(v, SubSeq(t, open + 1, close - 1)).text
             \o Replaced(t, v, close + 1)

\* C16: a successful render returns the template with every occurrence of
\* every placeholder replaced by the value bound to its name and all other
\* text unchanged; a value is copied verbatim, placeholder-like text inside
\* it is not substituted again.
C16_RenderVerbatim ==
    (Rendered /\ applied.out.success)
        => applied.out.result = Replaced(applied.args[1], applied.args[2], 1)

----------------------------------------------------------------------------
(* extractCleanContent: the activation phrase is cut from the transcript    *)

StartsWith(s, prefix) == Len(prefix) <= Len(s) /\ SubSeq(s, 1, Len(prefix)) = prefix

\* The two while loops: endIndex is a 0-based index into transcription.
RECURSIVE SkipPunctuation(_, _)
SkipPunctuation(transcription, endIndex) ==
    IF /\ endIndex < Len(transcription)       \* /[.,!?;:'")\]\}]/
       /\ CharAt(transcription, endIndex + 1)
              \in {".", ",", "!", "?", ";", ":", "'", "\"", ")", "]", "}"}
    THEN SkipPunctuation(transcription, endIndex + 1)
    ELSE endIndex

RECURSIVE SkipWhitespace(_, _)
SkipWhitespace(transcription, endIndex) ==
    IF endIndex < Len(transcription) /\ IsSpace(CharAt(transcription, endIndex + 1))
    THEN SkipWhitespace(transcription, endIndex + 1)
    ELSE endIndex

extractCleanContent(transcription, activationPhrase) ==
    IF transcription = "" \/ activationPhrase = "" THEN transcription
    ELSE LET lowerTranscription == Trim(ToLowerCase(transcription))
             lowerPhrase == Trim(ToLowerCase(activationPhrase))
         IN  IF StartsWith(lowerTranscription, lowerPhrase)
             THEN LET endIndex == SkipWhitespace(transcription,
                                      SkipPunctuation(transcription, Len(activationPhrase)))
                  IN  Trim(SubSeq(transcription, endIndex + 1, Len(transcription)))
             ELSE transcription


Extract ==
    /\ applied.fn = "extractCleanContent" /\ ~applied.done
    /\ applied' = [applied EXCEPT !.done = TRUE, !.out = extractCleanContent(applied.args[1], applied.args[2])]
    /\ UNCHANGED <<storeVars, managerVars, serviceVars, captureVars, page, clock, last>>

\* The text that follows the phrase in the trimmed transcript, without the
\* run of punctuation and then the run of whitespace right after it, trimmed.
AfterPhrase(t, p) ==
    LET body == Trim(t)
        from == Len(Trim(p))
    IN  Trim(SubSeq(body, SkipWhitespace(body, SkipPunctuation(body, from)) + 1, Len(body)))

\* C17: for every transcript and phrase, leading and trailing whitespace
\* included: when the trimmed transcript starts, ignoring case, with the
\* trimmed phrase, extract returns the text after the phrase without the
\* punctuation and whitespace that follow it, trimmed; otherwise it returns
\* the transcript unchanged.
C17_ExtractAfterPhrase ==
    (applied.fn = "extractCleanContent" /\ applied.done) =>
        LET t == applied.args[1]
            p == applied.args[2]
        IN  applied.out = IF StartsWith(ToLowerCase(Trim(t)), ToLowerCase(Trim(p)))
                          THEN AfterPhrase(t, p)
                          ELSE t

----------------------------------------------------------------------------
(* The order of the checks of enhanceTranscript *)

\* The preset the call that has returned was to use: the explicit id, or the
\* manager's selection; Null when none resolves.
ResolvedPreset ==
    IF Truthy(returned.presetId)
    THEN IF Has(presets, returned.presetId) THEN returned.presetId ELSE Null
    ELSE GetSelected(presets, selectedPresetId)

TemplateFails ==
    LET text == Truncate(returned.arg)
    IN  ~render(presets[ResolvedPreset].prompt,
                <<<<"transcript", text>>, <<"raw_transcript", text>>>>).success

\* The first check that fails for the call that has returned; "" when none
\* does and the call goes to the LLM.
FirstFailingCheck ==
    IF returned.busy THEN "already processing"
    ELSE IF ResolvedPreset = Null THEN "no preset selected"
    ELSE IF IsBlank(returned.arg) THEN "empty transcript"
    ELSE IF gptApiKey = "" THEN "no API key"
    ELSE IF TemplateFails THEN "template error"
    ELSE ""

CheckReasons ==
    {"already processing", "no preset selected", "empty transcript", "no API key",
     "template error"}

\* C18: a call given a transcript reports the first failing check in the order
\* busy, no resolvable preset, blank transcript, missing credential, template
\* failure, and only then a collaborator failure (a credential whose read
\* fails counts as missing); with a resolvable preset, a transcript that is
\* not blank and no credential the reason is 'no API key', the result is the
\* original text and the call has not gone to the LLM.
C18_Reported ==
    (returned.ended /\ ~returned.arg.absent) =>
        LET reason == returned.value.fallbackReason
        IN  /\ ~returned.threw
            /\ FirstFailingCheck \in CheckReasons \ {"template error"}
                  => (~returned.value.success /\ reason = FirstFailingCheck)
            /\ FirstFailingCheck = "template error"
                  => (~returned.value.success /\ reason \in {"template error", "no API key"})
            /\ FirstFailingCheck = ""
                  => (returned.value.success \/ reason \notin CheckReasons \ {"no API key"})
            /\ FirstFailingCheck = "no API key" => returned.value.result = returned.arg

C18_CheckOrder ==
    /\ []C18_Reported
    /\ [][(returned'.ended /\ returned'.value.fallbackReason = "no API key")
            => \E c \in CallIds : calls[c].pc = "awaitKey" /\ calls'[c].pc = "idle"]_vars

----------------------------------------------------------------------------
(* cleanTranscription.  The regular expressions of the function are         *)
(* modelled by what they match: for a phase p, MatchEnd(p, s, i) is the     *)
(* position after the match that starts at position i of s (1-based), or 0  *)
(* when none starts there, and Replacement gives the text put in its place. *)
(* Strings here are ASCII; the em dash U+2014 of the source is written '~'. *)

MaxCleanLength == 10000

At(s, i) == IF i >= 1 /\ i <= Len(s) THEN SubSeq(s, i, i) ELSE ""

\* \w, \s and the character classes of the patterns
Class ==
    LET Chars(str) == {SubSeq(str, k, k) : k \in 1..Len(str)}
    IN  [word |-> Chars(LowerCase) \cup Chars(UpperCase) \cup Chars("0123456789_"),
         space |-> {" ", "\t", "\n", "\r"},
         lower |-> Chars(LowerCase),
         upper |-> Chars(UpperCase),
         opener |-> {"(", "["},
         closer |-> {")", "]"},
         sentenceEnd |-> {".", "!", "?"},
         clause |-> {".", ",", ";", ":"}]

\* The position after the longest run of characters of class that starts at i.
RunEnd(class, s, i) ==
    CHOOSE k \in i..(Len(s) + 1) :
        /\ At(s, k) \notin class
        /\ \A j \in i..(k - 1) : At(s, j) \in class

\* The position after the match of pattern p that starts at position i of s;
\* 0 when none starts there.
MatchEnd(p, s, i) ==
    LET EmDash == "~"
        \* \b followed by \w: a word starts at i.
        WordStartsAt == At(s, i) \in Class.word /\ At(s, i - 1) \notin Class.word
        \* The alternatives of the filler patterns
        Fillers ==
            [basic |-> <<"um", "uh", "ah", "er", "hmm", "umm", "uhh", "ehh", "mm", "mhm",
                         "laugh", "laughs", "cough", "coughs", "pause">>,
             common |-> <<"like", "well", "so", "anyway", "basically", "literally",
                          "actually">>,
             phrase |-> <<"i mean", "you know", "kind of", "sort of">>]
        \* (w1|w2|...)[.,;:]*\s* at from, or with \s+ when needSpace: the position
        \* after the match of the first alternative, taken ignoring case, with
        \* which the whole pattern matches.
        AlternativesEnd(from, alts, needSpace) ==
            LET WordAt(w) ==
                    /\ from + Len(w) - 1 <= Len(s)
                    /\ ToLowerCase(SubSeq(s, from, from + Len(w) - 1)) = w
                TailEnd(j) ==
                    LET k == RunEnd(Class.clause, s, j)
                        e == RunEnd(Class.space, s, k)
                    IN  IF needSpace /\ e = k THEN 0 ELSE e
                fits(a) == WordAt(alts[a]) /\ TailEnd(from + Len(alts[a])) # 0
            IN  IF \E a \in 1..Len(alts) : fits(a)
                THEN LET first == CHOOSE a \in 1..Len(alts) :
                                     fits(a) /\ \A b \in 1..(a - 1) : ~fits(b)
                     IN  TailEnd(from + Len(alts[first]))
                ELSE 0
        \* \b(\w+) sep \1\b at i, where sep is '-\s+' (hyphen TRUE) or '\s+'.
        RepeatEnd(hyphen) ==
            IF ~WordStartsAt THEN 0
            ELSE LET wordEnd == RunEnd(Class.word, s, i)
                     gap == IF hyphen THEN wordEnd + 1 ELSE wordEnd
                     again == RunEnd(Class.space, s, gap)
                     len == wordEnd - i
                 IN  IF /\ hyphen => At(s, wordEnd) = "-"
                        /\ again > gap
                        /\ again + len - 1 <= Len(s)
                        /\ ToLowerCase(SubSeq(s, again, again + len - 1))
                              = ToLowerCase(SubSeq(s, i, wordEnd - 1))
                        /\ At(s, again + len) \notin Class.word
                     THEN again + len
                     ELSE 0
    IN
    CASE p = "brackets" ->          \* /\s*[\(\[]([^\)\]]*?)[\)\]]\s*/g
            LET k == RunEnd(Class.space, s, i)
                closes(j) == At(s, j) \in Class.closer
                j == IF At(s, k) \in Class.opener /\ \E m \in (k + 1)..Len(s) : closes(m)
                     THEN CHOOSE m \in (k + 1)..Len(s) :
                             closes(m) /\ \A n \in (k + 1)..(m - 1) : ~closes(n)
                     ELSE 0
            IN  IF j = 0 THEN 0 ELSE RunEnd(Class.space, s, j + 1)
      [] p = "ellipsis" ->          \* /\.{3,}/g
            IF At(s, i) = "." /\ At(s, i + 1) = "." /\ At(s, i + 2) = "."
            THEN RunEnd({"."}, s, i) ELSE 0
      [] p = "dashAtEnd" ->         \* /-\s*$/g on the em dash
            IF At(s, i) = EmDash /\ RunEnd(Class.space, s, i + 1) = Len(s) + 1
            THEN Len(s) + 1 ELSE 0
      [] p = "dash" ->              \* the em dash, /g
            IF At(s, i) = EmDash THEN i + 1 ELSE 0
      [] p = "stutter" ->           \* /\b(\w+)-\s+\1\b/gi
            RepeatEnd(TRUE)
      [] p = "falseStart" ->        \* /\b\w+-\s+/g
            IF ~WordStartsAt THEN 0
            ELSE LET wordEnd == RunEnd(Class.word, s, i)
                     e == RunEnd(Class.space, s, wordEnd + 1)
                 IN  IF At(s, wordEnd) = "-" /\ e > wordEnd + 1 THEN e ELSE 0
      [] p = "basicFillers" ->      \* /\b(um|uh|...)[.,;:]*\s*/gi
            IF WordStartsAt THEN AlternativesEnd(i, Fillers.basic, FALSE) ELSE 0
      [] p = "commonFillers" ->     \* /\b(like|well|...)[.,;:]*\s+/gi
            IF WordStartsAt THEN AlternativesEnd(i, Fillers.common, TRUE) ELSE 0
      [] p = "phraseFillers" ->     \* /\b(i mean|you know|...)[.,;:]*\s*/gi
            IF WordStartsAt THEN AlternativesEnd(i, Fillers.phrase, FALSE) ELSE 0
      [] p = "leadingFiller" ->     \* /^\s*(um|...|actually)[.,;:]*\s+/gi
            IF i = 1
            THEN AlternativesEnd(RunEnd(Class.space, s, 1), Fillers.basic \o Fillers.common, TRUE)
            ELSE 0
      [] p = "orphanComma" ->       \* /\s+,\s+/g
            LET k == RunEnd(Class.space, s, i)
                e == RunEnd(Class.space, s, k + 1)
            IN  IF k > i /\ At(s, k) = "," /\ e > k + 1 THEN e ELSE 0
      [] p = "commas" ->            \* /,\s*,+/g
            LET k == RunEnd(Class.space, s, i + 1)
            IN  IF At(s, i) = "," /\ At(s, k) = "," THEN RunEnd({","}, s, k) ELSE 0
      [] p = "periods" ->           \* /\.\s*\.+/g
            LET k == RunEnd(Class.space, s, i + 1)
            IN  IF At(s, i) = "." /\ At(s, k) = "." THEN RunEnd({"."}, s, k) ELSE 0
      [] p = "repeated" ->          \* /\b(\w+)\s+\1\b/gi
            RepeatEnd(FALSE)
      [] p = "spaces" ->            \* /\s{2,}/g
            IF At(s, i) \in Class.space /\ At(s, i + 1) \in Class.space
            THEN RunEnd(Class.space, s, i) ELSE 0
      [] p = "spaceBeforePunctuation" ->    \* /\s+([.,!?;:])/g
            LET k == RunEnd(Class.space, s, i)
            IN  IF k > i /\ At(s, k) \in {".", ",", "!", "?", ";", ":"} THEN k + 1 ELSE 0
      [] p = "periodsAndCommas" ->  \* /[.,]{2,}/g
            IF At(s, i) \in {".", ","} /\ At(s, i + 1) \in {".", ","}
            THEN RunEnd({".", ","}, s, i) ELSE 0
      [] p = "commaPeriod" ->       \* /,\s*\./g
            LET k == RunEnd(Class.space, s, i + 1)
            IN  IF At(s, i) = "," /\ At(s, k) = "." THEN k + 1 ELSE 0
      [] p = "semicolon" ->         \* /;\s*[.,]/g
            LET k == RunEnd(Class.space, s, i + 1)
            IN  IF At(s, i) = ";" /\ At(s, k) \in {".", ","} THEN k + 1 ELSE 0
      [] p = "colon" ->             \* /:\s*[.,;]/g
            LET k == RunEnd(Class.space, s, i + 1)
            IN  IF At(s, i) = ":" /\ At(s, k) \in {".", ",", ";"} THEN k + 1 ELSE 0
      [] p = "afterSentence" ->     \* /([.!?])\s{2,}/g
            IF At(s, i) \in Class.sentenceEnd /\ At(s, i + 1) \in Class.space /\ At(s, i + 2) \in Class.space
            THEN RunEnd(Class.space, s, i + 1) ELSE 0
      [] p = "afterClause" ->       \* /([,;:])\s{2,}/g
            IF At(s, i) \in {",", ";", ":"} /\ At(s, i + 1) \in Class.space /\ At(s, i + 2) \in Class.space
            THEN RunEnd(Class.space, s, i + 1) ELSE 0
      [] p = "capitalize" ->        \* /([.!?])\s*([a-z])/g
            LET k == RunEnd(Class.space, s, i + 1)
            IN  IF At(s, i) \in Class.sentenceEnd /\ At(s, k) \in Class.lower THEN k + 1 ELSE 0
      [] p = "question" ->          \* /\?\s*([a-z])/g
            LET k == RunEnd(Class.space, s, i + 1)
            IN  IF At(s, i) = "?" /\ At(s, k) \in Class.lower THEN k + 1 ELSE 0
      [] p = "whitespace" ->        \* /\s+/g
            IF At(s, i) \in Class.space THEN RunEnd(Class.space, s, i) ELSE 0
      [] p = "sentenceSpacing" ->   \* /([.!?])\s*([A-Z])/g
            LET k == RunEnd(Class.space, s, i + 1)
            IN  IF At(s, i) \in Class.sentenceEnd /\ At(s, k) \in Class.upper THEN k + 1 ELSE 0
      [] p = "spaceBeforeEnd" ->    \* /\s+([.!?])/g
            LET k == RunEnd(Class.space, s, i)
            IN  IF k > i /\ At(s, k) \in Class.sentenceEnd THEN k + 1 ELSE 0

\* The replacement of the match of p from i up to e.
Replacement(p, s, i, e) ==
    LET toUpperCase(ch) ==
            CharAt(UpperCase, CHOOSE k \in 1..Len(LowerCase) : CharAt(LowerCase, k) = ch)
    IN
    CASE p \in {"brackets", "falseStart", "basicFillers", "commonFillers", "phraseFillers",
                "spaces"} -> " "
      [] p \in {"ellipsis", "dashAtEnd", "dash", "periods", "periodsAndCommas",
                "commaPeriod"} -> "."
      [] p \in {"stutter", "repeated"} -> SubSeq(s, i, RunEnd(Class.word, s, i) - 1)
      [] p = "leadingFiller" -> ""
      [] p = "orphanComma" -> ", "
      [] p = "commas" -> ","
      [] p \in {"spaceBeforePunctuation", "spaceBeforeEnd"} -> At(s, e - 1)
      [] p = "whitespace" -> " "
      [] p = "sentenceSpacing" -> At(s, i) \o " " \o At(s, e - 1)
      [] p = "semicolon" -> ";"
      [] p = "colon" -> ":"
      [] p \in {"afterSentence", "afterClause"} -> At(s, i) \o " "
      [] p = "capitalize" -> At(s, i) \o " " \o toUpperCase(At(s, e - 1))
      [] p = "question" -> "? " \o toUpperCase(At(s, e - 1))

\* The value of an expression over assigned variables: in
\* The({f(v) : v \in {value}}) the value is computed once, as by an
\* assignment, and f uses it.
The(S) == CHOOSE out \in S : TRUE

\* s.replace(p, replacement) with the g flag, from position from on: i is the
\* start of the first match at or after from, 0 when there is none, and e the
\* position after that match.
RECURSIVE ReplaceRegExp(_, _, _)
ReplaceRegExp(p, s, from) ==
    The({IF i = 0 THEN SubSeq(s, from, Len(s))
         ELSE The({SubSeq(s, from, i - 1) \o Replacement(p, s, i, e) \o ReplaceRegExp(p, s, e)
                   : e \in {MatchEnd(p, s, i)}})
         : i \in {IF \E k \in from..Len(s) : MatchEnd(p, s, k) # 0
                  THEN CHOOSE k \in from..Len(s) :
                          /\ MatchEnd(p, s, k) # 0
                          /\ \A j \in from..(k - 1) : MatchEnd(p, s, j) = 0
                  ELSE 0}})

\* The replacements of phases 1 to 10, in the order of the source.
RECURSIVE RunPhases(_, _)
RunPhases(cleaned, n) ==
    LET Phases ==
            <<"brackets", "ellipsis", "dashAtEnd", "dash", "stutter", "falseStart",
              "basicFillers", "commonFillers", "phraseFillers", "leadingFiller",
              "orphanComma", "commas", "periods", "repeated", "spaces", "trim",
              "spaceBeforePunctuation", "periodsAndCommas", "commaPeriod", "semicolon",
              "colon", "afterSentence", "afterClause", "capitalize", "question">>
    IN
    IF n > Len(Phases) THEN cleaned
    ELSE The({RunPhases(next, n + 1)
              : next \in {IF Phases[n] = "trim" THEN Trim(cleaned)
                          ELSE ReplaceRegExp(Phases[n], cleaned, 1)}})

cleanTranscription(text) ==
    IF text = "" THEN ""
    ELSE LET truncated == IF Len(text) > MaxCleanLength
                          THEN SubSeq(text, 1, MaxCleanLength) \o "..."
                          ELSE text
             ended(replaced) == IF /\ replaced # ""
                                   /\ At(replaced, Len(replaced)) \notin Class.sentenceEnd
                                THEN replaced \o "."
                                ELSE replaced
         IN  The({IF cleaned = "" \/ Trim(cleaned) = "" THEN text ELSE cleaned
                  : cleaned \in {ended(replaced) : replaced \in {RunPhases(truncated, 1)}}})

Clean ==
    /\ applied.fn = "cleanTranscription" /\ ~applied.done
    /\ applied' = [applied EXCEPT !.done = TRUE, !.out = cleanTranscription(applied.args[1])]
    /\ UNCHANGED <<storeVars, managerVars, serviceVars, captureVars, page, clock, last>>

----------------------------------------------------------------------------
(* formatTextIntoParagraphs *)

TEXT_FORMATTING ==
    [MAX_PARAGRAPH_SENTENCES |-> 3,
     MAX_PARAGRAPH_WORDS |-> 80,
     MIN_PARAGRAPH_WORDS |-> 40,
     TOPIC_TRANSITIONS |->
        {"however", "but", "although", "meanwhile", "furthermore", "moreover",
         "additionally", "on the other hand", "in contrast", "nevertheless",
         "therefore", "consequently", "as a result", "in conclusion",
         "first", "second", "third", "finally", "lastly", "next", "then",
         "now", "so", "anyway", "also", "actually", "basically", "essentially"},
     TIME_INDICATORS |->
        {"yesterday", "today", "tomorrow", "last week", "next week",
         "last month", "next month", "last year", "next year",
         "earlier", "later", "recently", "soon", "eventually"}]

\* array.join(separator)
RECURSIVE Join(_, _)
Join(array, separator) ==
    IF Len(array) = 0 THEN ""
    ELSE IF Len(array) = 1 THEN array[1]
    ELSE array[1] \o separator \o Join(Tail(array), separator)

\* The for loop from index i on; loop holds paragraphs, currentParagraph,
\* sentenceCount and wordCount. The result is paragraphs after the loop and
\* the push that follows it.
RECURSIVE Paragraphs(_, _, _)
Paragraphs(sentences, i, loop) ==
    IF i > Len(sentences)
    THEN IF Len(loop.currentParagraph) > 0
         THEN Append(loop.paragraphs, Trim(Join(loop.currentParagraph, " ")))
         ELSE loop.paragraphs
    ELSE LET sentence == Trim(sentences[i])
             words == Cardinality({k \in 1..Len(sentence) :
                          At(sentence, k) \in Class.space /\ At(sentence, k - 1) \notin Class.space}) + 1
             lowerSentence == ToLowerCase(sentence)
             includes(part) == IndexOf(lowerSentence, part, 1) # 0
             shouldBreak ==
                \/ loop.sentenceCount >= 2 /\ loop.wordCount >= TEXT_FORMATTING.MIN_PARAGRAPH_WORDS
                \/ loop.sentenceCount >= TEXT_FORMATTING.MAX_PARAGRAPH_SENTENCES
                \/ loop.wordCount >= TEXT_FORMATTING.MAX_PARAGRAPH_WORDS
                \/ \E transition \in TEXT_FORMATTING.TOPIC_TRANSITIONS :
                      \/ StartsWith(lowerSentence, transition \o " ")
                      \/ includes(", " \o transition \o " ")
                \/ \E indicator \in TEXT_FORMATTING.TIME_INDICATORS : includes(indicator)
                \/ \E marker \in {"well", "so", "now", "anyway", "look", "listen", "you know what"} :
                      /\ StartsWith(lowerSentence, marker)
                      /\ At(sentence, Len(marker) + 1) \in Class.space
             started == IF shouldBreak /\ Len(loop.currentParagraph) > 0
                        THEN [paragraphs |-> Append(loop.paragraphs,
                                                    Trim(Join(loop.currentParagraph, " "))),
                              currentParagraph |-> <<>>, sentenceCount |-> 0, wordCount |-> 0]
                        ELSE loop
         IN  The({Paragraphs(sentences, i + 1, next)
                  : next \in {[paragraphs |-> begun.paragraphs,
                               currentParagraph |-> Append(begun.currentParagraph, sentence),
                               sentenceCount |-> begun.sentenceCount + 1,
                               wordCount |-> begun.wordCount + words] : begun \in {started}}})

formatTextIntoParagraphs(text) ==
    IF text = "" \/ Trim(text) = "" THEN text
    ELSE LET \* t.split(/([.!?]+)/).filter(s => s.trim().length > 0), from
             \* position i on: the runs of sentence-ending marks and the texts
             \* between them.
             RECURSIVE SplitSentences(_, _)
             SplitSentences(t, i) ==
                IF i > Len(t) THEN <<>>
                ELSE The({IF Trim(SubSeq(t, i, e - 1)) = "" THEN SplitSentences(t, e)
                          ELSE <<SubSeq(t, i, e - 1)>> \o SplitSentences(t, e)
                          : e \in {IF At(t, i) \in Class.sentenceEnd
                                   THEN RunEnd(Class.sentenceEnd, t, i)
                                   ELSE CHOOSE k \in (i + 1)..(Len(t) + 1) :
                                           /\ k = Len(t) + 1 \/ At(t, k) \in Class.sentenceEnd
                                           /\ \A j \in i..(k - 1) :
                                                 At(t, j) \notin Class.sentenceEnd}})
             formatted(cleanText, sentences) ==
                IF Len(sentences) <= 2 THEN cleanText
                ELSE LET result(paragraphs) ==
                            IF Len(paragraphs) > 1 THEN Join(paragraphs, "\n\n") ELSE cleanText
                         start == [paragraphs |-> <<>>, currentParagraph |-> <<>>,
                                   sentenceCount |-> 0, wordCount |-> 0]
                     IN  The({ReplaceRegExp("spaceBeforeEnd", joined, 1)
                              : joined \in {result(paragraphs)
                                  : paragraphs \in {Paragraphs(sentences, 1, start)}}})
         IN  The({The({formatted(cleanText, sentences)
                       : sentences \in {SplitSentences(cleanText, 1)}})
                  : cleanText \in {ReplaceRegExp("sentenceSpacing", spaced, 1)
                      : spaced \in {ReplaceRegExp("whitespace", trimmed, 1)
                          : trimmed \in {Trim(text)}}}})

Format ==
    /\ applied.fn = "formatTextIntoParagraphs" /\ ~applied.done
    /\ applied' = [applied EXCEPT !.done = TRUE, !.out = formatTextIntoParagraphs(applied.args[1])]
    /\ UNCHANGED <<storeVars, managerVars, serviceVars, captureVars, page, clock, last>>

----------------------------------------------------------------------------
(* handleSuccessfulTranscription: from the transcript to the inserted text  *)
(* and the saved record                                                     *)

\* The text insertTextAtActiveElement hands to performTextInsertion: the text
\* itself when it looks enhanced, cleanTranscription of it otherwise.
insertTextAtActiveElement(text) ==
    LET \* /^Hey,\s*\n/
        greeted ==
            /\ StartsWith(text, "Hey,")
            /\ \E k \in 5..(RunEnd(Class.space, text, 5) - 1) : At(text, k) = "\n"
        \* /\n\s*(?:Thanks,|Cheers,)\s*$/ with the line break at k
        signed(k) ==
            LET w == RunEnd(Class.space, text, k + 1)
            IN  /\ At(text, k) = "\n"
                /\ w + 6 <= Len(text)
                /\ SubSeq(text, w, w + 6) \in {"Thanks,", "Cheers,"}
                /\ RunEnd(Class.space, text, w + 7) = Len(text) + 1
        looksEnhanced ==
            \/ IndexOf(text, "\n\n", 1) # 0
            \/ greeted
            \/ \E k \in 1..Len(text) : signed(k)
    IN  IF looksEnhanced THEN text ELSE cleanTranscription(text)

\* The whole handler, handleURLEnhancement and the insertion included. The
\* arguments held are the transcript, the activation phrases of the stored
\* folders, the cleanup settings with the reply of the cleanup request (Null:
\* the request fails) and the preset selection with the result of
\* enhanceTranscript. out holds the calls in the order they are made, the text
\* handed to performTextInsertion and the record that is saved. After a
\* successful enhancement with the toggle shown the insertion waits for a
\* timer of 500 ms, while the handler goes on: timerFirst tells which is first.
handleSuccessfulTranscription ==
    /\ applied.fn = "handleSuccessfulTranscription" /\ ~applied.done
    /\ \E timerFirst \in BOOLEAN :
          LET rawTranscription == applied.args[1]
              folders == applied.args[2]
              cleanup == applied.args[3]
              enhancement == applied.args[4]
              requested == /\ cleanup.enabled
                           /\ rawTranscription # ""
                           /\ Len(Trim(rawTranscription)) >= 20
              enhances == enhancement.preset /\ enhancement.apiKey
              byTimer == enhances /\ enhancement.success /\ enhancement.toggle
              folderOf(formattedTranscription) ==
                  LET matches(k) == StartsWith(Trim(ToLowerCase(formattedTranscription)),
                                               Trim(ToLowerCase(folders[k])))
                  IN  IF \E k \in DOMAIN folders : matches(k)
                      THEN folders[CHOOSE k \in DOMAIN folders :
                                      matches(k) /\ \A j \in 1..(k - 1) : ~matches(j)]
                      ELSE Null
              result(cleanedTranscription, formattedTranscription, processedText,
                     activationPhrase) ==
                  LET before == (IF requested THEN <<"cleanupTranscription">> ELSE <<>>)
                                \o <<"formatTextIntoParagraphs">>
                                \o (IF enhances THEN <<"enhanceTranscript">> ELSE <<>>)
                      insertion == <<"insertTextAtActiveElement">>
                      after == (IF activationPhrase # Null
                                THEN <<"findFolderByActivationPhrase", "extractCleanContent">>
                                ELSE <<"findFolderByActivationPhrase">>)
                               \o <<"saveTranscriptionData">>
                  IN  [stages |-> IF byTimer /\ ~timerFirst
                                  THEN before \o after \o insertion
                                  ELSE before \o insertion \o after,
                       inserted |-> processedText,
                       activationPhrase |-> activationPhrase,
                       saved |-> [text |-> IF activationPhrase # Null
                                           THEN extractCleanContent(formattedTranscription,
                                                                    activationPhrase)
                                           ELSE formattedTranscription,
                                  rawText |-> rawTranscription,
                                  originalText |-> formattedTranscription,
                                  cleanedText |-> IF cleanedTranscription # rawTranscription
                                                  THEN cleanedTranscription ELSE Null]]
          IN  applied' =
                [applied EXCEPT
                   !.done = TRUE,
                   !.out = The({The({The({result(cleaned, formatted, processed,
                                                 folderOf(formatted))
                                          : processed \in {insertTextAtActiveElement(
                                                IF enhances /\ enhancement.success
                                                THEN enhancement.result ELSE formatted)}})
                                     : formatted \in {formatTextIntoParagraphs(cleaned)}})
                                : cleaned \in {IF requested /\ cleanup.reply # Null
                                               THEN cleanup.reply ELSE rawTranscription}})]
    /\ UNCHANGED <<storeVars, managerVars, serviceVars, captureVars, page, clock, last>>

\* The extension as constructed, with one application pending: render with a
\* template and a variables object (its entries in insertion order; the last
\* two are built as enhanceTranscript builds them), extractCleanContent with
\* a transcript and an activation phrase, or cleanTranscription with a
\* dictation of one or two words, one with the marks the phases look for, or
\* one over the length limit.
InitText ==
    LET templates ==
            {"", "plain text", "{a} and {b}", "{a}{a}", "{a} {c}", "{{a}", "{} {a}", "a {b",
             "Fix: {transcript}", "{transcript} ({raw_transcript})", "{b} then {a}"}
        variableSets ==
            {<<>>,
             <<<<"a", Str("x")>>>>,
             <<<<"a", Str("x")>>, <<"b", Str("y")>>>>,
             <<<<"a", Str("")>>, <<"b", Str("y")>>>>,
             <<<<"a", Absent>>, <<"b", Str("y")>>>>,
             <<<<"a", Str("{b}")>>, <<"b", Str("y")>>>>,
             <<<<"a", Str("x")>>, <<"b", Str("$& more")>>>>,
             <<<<"{a", Str("z")>>, <<"a", Str("x")>>>>,
             <<<<"transcript", Str("hello")>>, <<"raw_transcript", Str("hello")>>>>,
             <<<<"transcript", Str("say {raw_transcript}")>>,
               <<"raw_transcript", Str("say {raw_transcript}")>>>>}
        dictations ==
            {"", "Work note, finish the report.", "work note finish", "  Work note, finish",
             "Work note", "Work note.   ", "Worknote", "Other text", "Work note,!  two",
             "WORK NOTE: x "}
        phrases == {"", "Work note", "Work note,", " work note ", "note", "Work note  "}
        words == {"um", "uh", "Umm", "so", "like", "well", "hello", "world"}
        longWord == Repeat("a", MaxCleanLength + 1)
        longFiller == "um" \o Repeat(".", MaxCleanLength + 300)
        formatInputs ==
            {"", "  ", "hello world", "It rained today.", "It rained. Today it is fine.",
             "One. Two.", "hello.  world", "one. two. three.", "I left. However it went on.",
             "Done. so what", "We met. Well then.", "first we met", "Hi there.Bye",
             "One! Two? Three. Four.", "wait.. ok", "a\nb. c", "Is it late? yes, but stay.",
             "Work note, call Sam. Then write."}
        Pending(fn, args) == [fn |-> fn, args |-> args, done |-> FALSE, out |-> Null]
        transcripts ==
            {"Work note, finish the report.", "work note finish the report today",
             "Other text for today", "um work note", "Work note. It rained. Today it is fine."}
        folderSets == {<<>>, <<"Work note">>, <<"Diary", "work note ">>}
        cleanups ==
            {[enabled |-> FALSE, reply |-> Null], [enabled |-> TRUE, reply |-> Null],
             [enabled |-> TRUE, reply |-> "Work note, finish the report today."]}
        enhancements ==
            {[preset |-> FALSE, apiKey |-> TRUE, success |-> FALSE, toggle |-> TRUE, result |-> ""],
             [preset |-> TRUE, apiKey |-> FALSE, success |-> FALSE, toggle |-> TRUE, result |-> ""],
             [preset |-> TRUE, apiKey |-> TRUE, success |-> FALSE, toggle |-> TRUE, result |-> ""],
             [preset |-> TRUE, apiKey |-> TRUE, success |-> TRUE, toggle |-> TRUE,
              result |-> "Hey,\n\nPlease finish the report.\n\nThanks,"],
             [preset |-> TRUE, apiKey |-> TRUE, success |-> TRUE, toggle |-> FALSE,
              result |-> "Note: finish the report"]}
        cleanInputs ==
            words
            \cup {a \o " " \o b : a, b \in words}
            \cup {"", "I- I think so", "it- it works", "what the~", "what the~ what is that",
                  "so (laughs) yes", "wait... what", "the the cat", "ok , fine", "yes,, no..",
                  "i mean it is kind of late", "done.  next one", "really? yes",
                  "Um, hello there", "note: . ok", longWord, longFiller}
    IN
    /\ syncPresets = EmptyMap
    /\ syncSelected = Null
    /\ localPresets = EmptyMap
    /\ localSelected = Null
    /\ gptApiKey = ""
    /\ legacy = NoLegacy
    /\ presets = EmptyMap
    /\ selectedPresetId = Null
    /\ initialized = FALSE
    /\ init = [i \in InitIds |-> InitIdle]
    /\ deleting = Null
    /\ isProcessing = FALSE
    /\ calls = [c \in CallIds |-> Idle]
    /\ returned = NoReturn
    /\ page = PageIdle
    /\ clock = 1
    /\ last = NoLast
    /\ recorder = Constructed.recorder
    /\ history = Constructed.history
    /\ tracker = Constructed.tracker
    /\ applied \in {Pending("render", <<t, v>>) : t \in templates, v \in variableSets}
            \cup {Pending("extractCleanContent", <<t, ph>>) : t \in dictations, ph \in phrases}
            \cup {Pending("cleanTranscription", <<t>>) : t \in cleanInputs}
            \cup {Pending("formatTextIntoParagraphs", <<t>>) : t \in formatInputs}
            \cup {Pending("handleSuccessfulTranscription", <<t, f, c, e>>)
                  : t \in transcripts, f \in folderSets, c \in cleanups, e \in enhancements}

NextText ==
    \/ Render
    \/ Extract
    \/ Clean
    \/ Format
    \/ handleSuccessfulTranscription

SpecText == InitText /\ [][NextText]_vars

Cleaned == applied.fn = "cleanTranscription" /\ applied.done

Letters == Class.lower \cup Class.upper

\* A text that is not empty and is made of alphabetic words only.
AlphabeticWords(t) ==
    /\ \E i \in 1..Len(t) : At(t, i) \in Letters
    /\ \A i \in 1..Len(t) : At(t, i) \in Letters \cup {" "}

\* C19: for every input that is not empty and is made of alphabetic words
\* only, filler words included, clean returns a text whose last character is
\* '.', '!' or '?'.
C19_SentenceEnding ==
    (Cleaned /\ AlphabeticWords(applied.args[1]))
        => At(applied.out, Len(applied.out)) \in Class.sentenceEnd

\* C20: for every input of more than 10,000 characters clean returns a text
\* of at most 10,003 characters.
C20_LengthBound ==
    (Cleaned /\ Len(applied.args[1]) > MaxCleanLength)
        => Len(applied.out) <= MaxCleanLength + 3

----------------------------------------------------------------------------
(* Claims about formatTextIntoParagraphs *)

Formatted == applied.fn = "formatTextIntoParagraphs" /\ applied.done

\* The positions at which a sentence of t starts: the first character that is
\* neither whitespace nor a sentence-ending mark, at the start of t or after
\* a sentence-ending mark.
SentenceStarts(t) ==
    {k \in 1..Len(t) :
        /\ At(t, k) \notin Class.sentenceEnd \cup Class.space
        /\ \E j \in 0..(k - 1) :
              /\ j = 0 \/ At(t, j) \in Class.sentenceEnd
              /\ \A m \in (j + 1)..(k - 1) : At(t, m) \in Class.space}

\* C21: for every input of at most two sentences format returns the input
\* with its whitespace and the spacing before a capital after a sentence end
\* normalised and nothing else changed; the output has no paragraph break.
C21_ShortTextKept ==
    (Formatted /\ Cardinality(SentenceStarts(applied.args[1])) <= 2)
        => /\ IndexOf(applied.out, "\n\n", 1) = 0
           /\ applied.out =
                 IF Trim(applied.args[1]) = "" THEN applied.args[1]
                 ELSE The({ReplaceRegExp("sentenceSpacing", spaced, 1)
                           : spaced \in {ReplaceRegExp("whitespace", Trim(applied.args[1]), 1)}})

----------------------------------------------------------------------------
(* Claims about handleSuccessfulTranscription *)

Transcribed == applied.fn = "handleSuccessfulTranscription" /\ applied.done

\* The call named stage is made before the call named later.
C22_Precedes(stage, later) ==
    \E a, b \in DOMAIN applied.out.stages :
        /\ a < b
        /\ applied.out.stages[a] = stage
        /\ applied.out.stages[b] = later

\* C22: when a folder's activation phrase matches the transcript, the phrase
\* is extracted before the text is formatted, enhanced and inserted, and the
\* text handed to the insertion step does not start with the phrase.
C22_PhraseGoneBeforeInsertion ==
    (Transcribed /\ applied.out.activationPhrase # Null)
        => /\ C22_Precedes("extractCleanContent", "formatTextIntoParagraphs")
           /\ C22_Precedes("extractCleanContent", "insertTextAtActiveElement")
           /\ ~StartsWith(Trim(ToLowerCase(applied.out.inserted)),
                          Trim(ToLowerCase(applied.out.activationPhrase)))

----------------------------------------------------------------------------
(* Claims about a preset deleted during an enhancement *)

\* The preset is gone from the manager's collection or from the persisted one.
C23_Deleted(id) == ~Has(presets, id) \/ ~Has(syncPresets, id)

\* C23: when the preset of an enhancement in flight was deleted, by the
\* manager or by the settings page, the update of the usage statistics that
\* follows the reply changes no collection, in memory or persisted (the
\* deleted preset does not come back, no other preset's statistics change),
\* and the enhancement returns success.
C23_DeletedPresetStaysDeleted ==
    [][\A c \in CallIds :
          /\ (/\ calls[c].pc = "awaitJson"
              /\ calls'[c].pc = "awaitUsage"
              /\ C23_Deleted(calls[c].preset.id))
                => /\ presets' = presets
                   /\ syncPresets' = syncPresets
                   /\ localPresets' = localPresets
          /\ (calls[c].pc = "awaitUsage" /\ calls'[c].pc = "idle")
                => (returned'.ended /\ ~returned'.threw /\ returned'.value.success)]_vars

----------------------------------------------------------------------------
(* Claims about the timeout of callOpenAI *)

\* C24: every enhance call that has reached the LLM returns in the end: when
\* the response, headers and body, is not there in time, the timer aborts the
\* call and it returns the fallback.
C24_EveryCallReturns ==
    \A c \in CallIds : (calls[c].pc \in PastTheLLM) ~> (calls[c].pc = "idle")

----------------------------------------------------------------------------
(* Claims about the busy flag *)

\* C25: whenever no enhance call is in flight the busy flag is clear: a call
\* that set the flag clears it on every exit, a call turned away as 'already
\* processing' leaves the flag as it is, and a call made while none is in
\* flight is never turned away.
C25_BusyFlagFollowsFlight ==
    /\ [](InFlight = {} => ~isProcessing)
    /\ [][/\ \A c \in CallIds :
                (calls[c].pc # "idle" /\ calls'[c].pc = "idle") => ~isProcessing'
          /\ (CallStarts /\ returned'.ended /\ returned'.busy)
                => (isProcessing /\ isProcessing' /\ InFlight # {})
          /\ (CallStarts /\ InFlight = {}) => ~(returned'.ended /\ returned'.busy)]_vars

\* A call that went past the busy check and awaited a collaborator has ended,
\* none is in flight and the flag is clear.
C25_Witness ==
    /\ returned.ended /\ ~returned.busy /\ returned.collab > 0
    /\ InFlight = {}
    /\ ~isProcessing

----------------------------------------------------------------------------
(* Claims about the selection *)

\* No operation of the manager is under way.
C26_Completed == deleting = Null /\ \A i \in InitIds : init[i].pc \in {"idle", "done"}

\* C26: after any sequence of loadPresets, selectPreset, deletePreset and
\* preset changes in the popup the selection of the manager is none or the id
\* of a preset of its collection, and once the operations have completed it
\* equals the persisted selectedPresetId.
C26_SelectionConsistent ==
    /\ selectedPresetId = Null \/ Has(presets, selectedPresetId)
    /\ C26_Completed => selectedPresetId = syncSelected

----------------------------------------------------------------------------
(* Claims about two concurrent runs of init *)

C27_BothDone == \A i \in InitIds : init[i].pc = "done"

\* C27: when getSelectedPreset starts a second init while the constructor's
\* init is under way, then under every interleaving, once both have ended, the
\* collection in memory equals the persisted one and holds every system
\* preset, and a preset the migration has written is in both.
C27_ConcurrentInitConverges ==
    /\ [](C27_BothDone => /\ presets = syncPresets
                          /\ \A id \in SystemIds : Has(presets, id))
    /\ \A site \in Sites :
          [](Has(syncPresets, MigratedId(site))
                => [](C27_BothDone => /\ Has(presets, MigratedId(site))
                                      /\ Has(syncPresets, MigratedId(site))))

----------------------------------------------------------------------------
(* AudioRecorder and the shortcut handler of the content script.

   A stream and the MediaRecorder built over it carry the same number, the
   rank of the stream among those getUserMedia has handed out, from 1. *)

\* stream.getTracks().forEach(track => track.stop()): the tracks of s end, and
\* a MediaRecorder still recording s stops, its stop event queued.
StopTracks(r, s) ==
    [r EXCEPT !.live = @ \ {s},
              !.active = @ \ {s},
              !.stopping = @ \cup (r.active \cap {s})]

cleanup(r) ==
    [(IF r.stream # 0 THEN StopTracks(r, r.stream) ELSE r)
        EXCEPT !.stream = 0, !.mediaRecorder = 0, !.isRecording = FALSE]

\* toggleRecording by call c. startRecording runs up to its await of
\* getUserMedia and leaves isRecording as it is; MediaRecorder.stop() throws on
\* a recorder that is not recording any more.
toggleRecording(r, c) ==
    LET startRecording ==
            IF r.isRecording THEN [r EXCEPT !.calls[c] = "idle"]
            ELSE [r EXCEPT !.calls[c] = "awaitMic"]
        stopRecording ==
            IF ~r.isRecording \/ r.mediaRecorder = 0 THEN r
            ELSE IF r.mediaRecorder \in r.active
                 THEN [r EXCEPT !.active = @ \ {r.mediaRecorder},
                                !.stopping = @ \cup {r.mediaRecorder}]
                 ELSE cleanup(r)
    IN  IF r.isRecording THEN [stopRecording EXCEPT !.calls[c] = "idle"]
        ELSE startRecording

\* The shortcut arrives: a recorder at rest has the handler read the API key
\* first, a recording one is toggled at once.
handleToggleRecording(c) ==
    /\ recorder.calls[c] = "idle"
    /\ \/ recorder.isRecording
       \/ recorder.opened + Cardinality({d \in CallIds : recorder.calls[d] # "idle"})
             < MaxStreams
    /\ recorder' = IF recorder.isRecording THEN toggleRecording(recorder, c)
                   ELSE [recorder EXCEPT !.calls[c] = "awaitKey"]
    /\ UNCHANGED <<storeVars, managerVars, serviceVars, page, clock, last, applied,
                   history, tracker>>

\* getApiKey answers: without a key the handler shows an error and returns.
ApiKeyResolves(c, hasKey) ==
    /\ recorder.calls[c] = "awaitKey"
    /\ recorder' = IF hasKey THEN toggleRecording(recorder, c)
                   ELSE [recorder EXCEPT !.calls[c] = "idle"]
    /\ UNCHANGED <<storeVars, managerVars, serviceVars, page, clock, last, applied,
                   history, tracker>>

\* getUserMedia answers: the rest of startRecording, or its catch block.
MicSettles(c, granted) ==
    /\ recorder.calls[c] = "awaitMic"
    /\ LET s == recorder.opened + 1
       IN  recorder' =
             IF granted
             THEN [recorder EXCEPT !.opened = s,
                                   !.live = @ \cup {s},
                                   !.stream = s,
                                   !.mediaRecorder = s,
                                   !.audioChunks = <<>>,
                                   !.active = @ \cup {s},
                                   !.isRecording = TRUE,
                                   !.calls[c] = "idle"]
             ELSE [cleanup(recorder) EXCEPT !.calls[c] = "idle"]
    /\ UNCHANGED <<storeVars, managerVars, serviceVars, page, clock, last, applied,
                   history, tracker>>

\* ondataavailable of MediaRecorder m: the chunk goes to this.audioChunks.
DataAvailable(m) ==
    /\ m \in recorder.active
    /\ Len(recorder.audioChunks) < MaxChunks
    /\ recorder' = [recorder EXCEPT !.audioChunks = Append(@, m)]
    /\ UNCHANGED <<storeVars, managerVars, serviceVars, page, clock, last, applied,
                   history, tracker>>

\* onstop of MediaRecorder m: it stops the tracks of this.stream, whichever
\* stream that is by now, and throws when there is none.
RecorderStops(m) ==
    /\ m \in recorder.stopping
    /\ LET r == [recorder EXCEPT !.stopping = @ \ {m}]
       IN  recorder' =
             IF r.stream = 0 THEN r
             ELSE [StopTracks(r, r.stream) EXCEPT !.stream = 0, !.isRecording = FALSE]
    /\ UNCHANGED <<storeVars, managerVars, serviceVars, page, clock, last, applied,
                   history, tracker>>
----------------------------------------------------------------------------
(* StorageManager.addTranscription over chrome.storage.local 'history'.

   A record is the number of its creation: the stored list holds the newest
   first. Every stored record has its id, so getHistory writes nothing. *)

cleanupHistory(h) ==
    IF Len(h) <= MAX_HISTORY_ITEMS THEN h ELSE SubSeq(h, 1, MAX_HISTORY_ITEMS)

addTranscription(c) ==
    /\ history.calls[c].pc = "idle"
    /\ history' = [history EXCEPT !.made = @ + 1,
                                  !.calls[c] = [@ EXCEPT !.pc = "getHistory",
                                                         !.id = history.made + 1]]
    /\ UNCHANGED <<storeVars, managerVars, serviceVars, page, clock, last, applied,
                   recorder, tracker>>

\* The read of getHistory answers: the record goes in front of what was read,
\* the list is cut to its limit, and the write is issued.
HistoryRead(c) ==
    /\ history.calls[c].pc = "getHistory"
    /\ history' = [history EXCEPT
                     !.calls[c] = [@ EXCEPT !.pc = "set",
                                            !.snap = cleanupHistory(<<history.calls[c].id>>
                                                                          \o history.stored)]]
    /\ UNCHANGED <<storeVars, managerVars, serviceVars, page, clock, last, applied,
                   recorder, tracker>>

\* chrome.storage.local.set answers: the call returns whether it succeeded.
HistoryWrites(c, ok) ==
    /\ history.calls[c].pc = "set"
    /\ history' = [history EXCEPT
                     !.stored = IF ok THEN history.calls[c].snap ELSE @,
                     !.calls[c] = [@ EXCEPT !.pc = "returned", !.result = ok]]
    /\ UNCHANGED <<storeVars, managerVars, serviceVars, page, clock, last, applied,
                   recorder, tracker>>
----------------------------------------------------------------------------
(* YapprUsageTracker. An event is the number of its acceptance; an aggregate
   is the set of the events it counts. Every aggregate is younger than the
   ninety days storeAggregatedData keeps. *)

\* aggregateAndStore up to the first await of storeAggregatedData.
aggregateAndStore(t, c) ==
    IF ~t.isEnabled \/ t.events = <<>> THEN t
    ELSE [t EXCEPT !.flights[c] =
            [pc |-> "get", data |-> {t.events[i] : i \in DOMAIN t.events}, existing |-> <<>>]]

\* trackEvent; a critical event starts a store at once, in flight c.
trackEvent(critical, c) ==
    /\ tracker.isEnabled
    /\ tracker.tracked < MaxEvents
    /\ critical => tracker.flights[c].pc = "idle"
    /\ LET t == [tracker EXCEPT !.tracked = @ + 1, !.events = Append(@, tracker.tracked + 1)]
       IN  tracker' = IF critical THEN aggregateAndStore(t, c) ELSE t
    /\ UNCHANGED <<storeVars, managerVars, serviceVars, page, clock, last, applied,
                   recorder, history>>

\* The five-minute timer, or the page being left.
PeriodicStore(c) ==
    /\ tracker.flights[c].pc = "idle"
    /\ tracker.isEnabled /\ tracker.events # <<>>
    /\ tracker' = aggregateAndStore(tracker, c)
    /\ UNCHANGED <<storeVars, managerVars, serviceVars, page, clock, last, applied,
                   recorder, history>>

\* The read of storeAggregatedData answers. A failure is caught there, and
\* aggregateAndStore goes on to clear the events.
StoreReads(c, ok) ==
    /\ tracker.flights[c].pc = "get"
    /\ tracker' = IF ok
                  THEN [tracker EXCEPT !.flights[c].pc = "set",
                                       !.flights[c].existing = tracker.stored]
                  ELSE [tracker EXCEPT !.flights[c] = Constructed.tracker.flights[c],
                                       !.events = <<>>]
    /\ UNCHANGED <<storeVars, managerVars, serviceVars, page, clock, last, applied,
                   recorder, history>>

\* The write of storeAggregatedData answers; the events are cleared either way.
StoreWrites(c, ok) ==
    /\ tracker.flights[c].pc = "set"
    /\ tracker' = [tracker EXCEPT
                     !.stored = IF ok THEN Append(tracker.flights[c].existing,
                                                  tracker.flights[c].data)
                                ELSE @,
                     !.flights[c] = Constructed.tracker.flights[c],
                     !.events = <<>>]
    /\ UNCHANGED <<storeVars, managerVars, serviceVars, page, clock, last, applied,
                   recorder, history>>
----------------------------------------------------------------------------
(* The capture objects under concurrent use: each specification runs one of
   them, from the same initial states. *)

InitCapture ==
    /\ syncPresets = EmptyMap
    /\ syncSelected = Null
    /\ localPresets = EmptyMap
    /\ localSelected = Null
    /\ gptApiKey = ""
    /\ legacy = NoLegacy
    /\ presets = EmptyMap
    /\ selectedPresetId = Null
    /\ initialized = FALSE
    /\ init = [i \in InitIds |-> InitIdle]
    /\ deleting = Null
    /\ isProcessing = FALSE
    /\ calls = [c \in CallIds |-> Idle]
    /\ returned = NoReturn
    /\ page = PageIdle
    /\ clock = 1
    /\ last = NoLast
    /\ applied = NoApplied
    /\ recorder = Constructed.recorder
    /\ history \in {[Constructed.history EXCEPT !.stored = [i \in 1..n |-> n + 1 - i],
                                                !.made = n]
                    : n \in {0, 1, MAX_HISTORY_ITEMS - 1, MAX_HISTORY_ITEMS}}
    /\ tracker = Constructed.tracker

NextRecorder ==
    \E c \in CallIds :
        \/ handleToggleRecording(c)
        \/ \E hasKey \in BOOLEAN : ApiKeyResolves(c, hasKey)
        \/ \E granted \in BOOLEAN : MicSettles(c, granted)
        \/ \E m \in 1..MaxStreams : DataAvailable(m)
        \/ \E m \in 1..MaxStreams : RecorderStops(m)

SpecRecorder == InitCapture /\ [][NextRecorder]_vars

NextHistory ==
    \E c \in CallIds :
        \/ addTranscription(c)
        \/ HistoryRead(c)
        \/ \E ok \in BOOLEAN : HistoryWrites(c, ok)

SpecHistory == InitCapture /\ [][NextHistory]_vars

NextTracker ==
    \E c \in CallIds :
        \/ \E critical \in BOOLEAN : trackEvent(critical, c)
        \/ PeriodicStore(c)
        \/ \E ok \in BOOLEAN : StoreReads(c, ok)
        \/ \E ok \in BOOLEAN : StoreWrites(c, ok)

SpecTracker == InitCapture /\ [][NextTracker]_vars

----------------------------------------------------------------------------
(* Claims about concurrent recordings *)

C28_SecondSettled ==
    /\ recorder.opened >= 2
    /\ \A c \in CallIds : recorder.calls[c] = "idle"

\* C28: at most one recording is active per AudioRecorder: a start issued
\* while another start awaits the microphone opens no second stream and
\* replaces neither the MediaRecorder nor the chunks of the first, so that at
\* any time at most one stream runs, it is the one the recorder holds (and so
\* can stop), at most one MediaRecorder records, and the chunks collected come
\* from one MediaRecorder.
C28_OneRecording ==
    /\ Cardinality(recorder.live) <= 1
    /\ recorder.live \subseteq {recorder.stream}
    /\ Cardinality(recorder.active) <= 1
    /\ \A i, j \in DOMAIN recorder.audioChunks :
          recorder.audioChunks[i] = recorder.audioChunks[j]

----------------------------------------------------------------------------
(* Claims about concurrent saves to the history *)

\* The calls of addTranscription that have returned true.
C29_Saved == {c \in CallIds : history.calls[c].pc = "returned" /\ history.calls[c].result}

\* C29: when addTranscription calls interleave over a history of fewer than
\* 500 records, then once all of them have returned the persisted history
\* holds the record of every call that returned true.
C29_NoRecordLost ==
    LET started == {c \in CallIds : history.calls[c].pc # "idle"}
    IN  (/\ history.made - Cardinality(started) < MAX_HISTORY_ITEMS
         /\ \A c \in started : history.calls[c].pc = "returned")
        => \A c \in C29_Saved :
              \E i \in DOMAIN history.stored : history.stored[i] = history.calls[c].id

----------------------------------------------------------------------------
(* Claims about the usage tracker *)

\* The stored aggregates that count event e.
C30_Aggregates(e) == {i \in DOMAIN tracker.stored : e \in tracker.stored[i]}

\* C30: every event trackEvent has accepted is counted by at most one stored
\* aggregate, and until it is stored it is kept, among the events of the
\* tracker or in a store under way; once no store is under way and no event
\* waits, it is counted by exactly one stored aggregate.
C30_EveryEventOnce ==
    \A e \in 1..tracker.tracked :
        /\ Cardinality(C30_Aggregates(e)) <= 1
        /\ \/ C30_Aggregates(e) # {}
           \/ \E i \in DOMAIN tracker.events : tracker.events[i] = e
           \/ \E c \in CallIds : e \in tracker.flights[c].data

====
